---------------------------- MODULE Spec2Model ----------------------------
(***************************************************************************)
(* Model of the forward-scattering dipole kernel FwdScat                   *)
(* (src/src/subsurface/fwdscat_impl.h): the kernel evaluator, the virtual  *)
(* source constructor, the length samplers and the direction samplers.     *)
(*                                                                         *)
(* Numbers.  A Float/double is a fixed-point integer with FS units per 1.0 *)
(* plus the three IEEE special values PInf, NInf and NaN.  Comparisons     *)
(* with NaN are false, x/0 is +-Inf, 0/0 and Inf-Inf are NaN, and a result *)
(* beyond the finite range overflows to +-Inf, as in IEEE-754.  A Vector   *)
(* is a triple of such numbers; a unit vector has length FS.  An operation *)
(* of the arithmetic is a function applied to its operands: an operand is  *)
(* evaluated once, as in the program.                                      *)
(*                                                                         *)
(* Assertions.  FSAssert states a condition and decides no branch of the   *)
(* code: the model has no step for it.  The blocks under                   *)
(* #ifdef MTS_FWDSCAT_DEBUG are in the build when debug is TRUE.           *)
(*                                                                         *)
(* Collaborators.  The Sampler, truncnorm, erf, the root solver and the    *)
(* warps are not part of the file: a call returns one of a set of values.  *)
(* The values of truncnorm are ones at which the change of variable        *)
(* between t and ps is exact in this arithmetic.                           *)
(***************************************************************************)
EXTENDS Integers, Sequences, FiniteSets, TLC

(***************************************************************************)
(* Fixed-point floats                                                      *)
(***************************************************************************)
FS   == 10 * 100                \* fixed-point units per 1.0
PInf == 2^30                    \* +infinity
NInf == 0 - PInf                \* -infinity
NaN  == PInf + 1                \* not-a-number

Abs(x) == IF x < 0 THEN 0 - x ELSE x
Sgn(x) == IF x < 0 THEN 0 - 1 ELSE IF x > 0 THEN 1 ELSE 0
Min(a, b) == IF a <= b THEN a ELSE b
Max(a, b) == IF a >= b THEN a ELSE b
\* integer division truncating towards zero (C++ semantics of /)
TDiv(a, b) == Sgn(a) * Sgn(b) * (Abs(a) \div Abs(b))

IsNaN(x)    == x = NaN
IsInf(x)    == x = PInf \/ x = NInf
IsFinite(x) == x > NInf /\ x < PInf
\* a finite integer result, overflowing to +-Inf
Sat(x) == IF x >= PInf THEN PInf ELSE IF x <= NInf THEN NInf ELSE x

FNeg(a0) ==
    [a \in Int |->
        IF IsNaN(a) THEN NaN ELSE 0 - a][a0]
FAdd(a0, b0) ==
    [a \in Int, b \in Int |->
        IF IsNaN(a) \/ IsNaN(b) THEN NaN
        ELSE IF IsInf(a) THEN (IF IsInf(b) /\ a # b THEN NaN ELSE a)
        ELSE IF IsInf(b) THEN b
        ELSE Sat(a + b)][a0, b0]
FSub(a, b) == FAdd(a, FNeg(b))
\* one step of MulDivWide: from h = <<(r * z) \div d, (r * z) % d>> to the
\* pair for 2 * z + bit; the quotient stops at PInf
MulDivWideDouble(q, m, bit, r, d) ==
    <<IF q >= PInf THEN PInf
      ELSE Sat(2 * q + (IF 2 * m >= d THEN 1 ELSE 0)
                     + (IF bit = 1 /\ ((IF 2 * m >= d THEN 2 * m - d ELSE 2 * m) + r >= d) THEN 1 ELSE 0)),
      ((IF 2 * m >= d THEN 2 * m - d ELSE 2 * m) + bit * r) % d>>
MulDivWideStep(h, bit, r, d) == MulDivWideDouble(h[1], h[2], bit, r, d)
RECURSIVE MulDivWide(_, _, _)
\* <<(r * y) \div d, (r * y) % d>> for 0 <= r < d, by halving y, where r * y
\* does not fit the 32-bit integers
MulDivWide(r, y, d) ==
    IF y = 0 THEN <<0, 0>>
    ELSE MulDivWideStep(MulDivWide(r, y \div 2, d), y % 2, r, d)
\* (r * ry) \div d for 0 <= r, ry < d
MulDivLow(r, ry, d) ==
    IF r = 0 \/ ry = 0 THEN 0
    ELSE IF ry > (((PInf - 1) + PInf) \div r)
    THEN MulDivWide(Max(r, ry), Min(r, ry), d)[1]
    ELSE (r * ry) \div d
\* (x * y) \div d from the quotients q, qy and the remainders r, ry of x and
\* y by d
MulDivParts(x, q, r, qy, ry, d) ==
    IF qy # 0 /\ x > ((PInf - 1) \div qy) THEN PInf
    ELSE IF q # 0 /\ ry > ((PInf - 1) \div q) THEN PInf
    ELSE Sat(Sat(x * qy + q * ry) + MulDivLow(r, ry, d))
MulDivOf(x, y, d) == MulDivParts(x, x \div d, x % d, y \div d, y % d, d)
\* |a|*|b| \div d for finite a, b without overflowing the 32-bit integers
MulDivAbs(a, b, d) == MulDivOf(Abs(a), Abs(b), d)
FMul(a0, b0) ==
    [a \in Int, b \in Int |->
        IF IsNaN(a) \/ IsNaN(b) THEN NaN
        ELSE IF IsInf(a) \/ IsInf(b)
             THEN (IF a = 0 \/ b = 0 THEN NaN ELSE Sgn(a) * Sgn(b) * PInf)
        ELSE Sgn(a) * Sgn(b) * MulDivAbs(a, b, FS)][a0, b0]
FDiv(a0, b0) ==
    [a \in Int, b \in Int |->
        IF IsNaN(a) \/ IsNaN(b) THEN NaN
        ELSE IF IsInf(a) THEN (IF IsInf(b) THEN NaN
                               ELSE (IF b < 0 THEN 0 - a ELSE a))
        ELSE IF IsInf(b) THEN 0
        ELSE IF b = 0 THEN (IF a = 0 THEN NaN ELSE Sgn(a) * PInf)
        ELSE Sgn(a) * Sgn(b) * MulDivAbs(a, FS, Abs(b))][a0, b0]
\* IEEE comparisons: false as soon as one side is NaN
FLt(a0, b0) ==
    [a \in Int, b \in Int |->
        ~IsNaN(a) /\ ~IsNaN(b) /\ a < b][a0, b0]
FLe(a0, b0) ==
    [a \in Int, b \in Int |->
        ~IsNaN(a) /\ ~IsNaN(b) /\ a <= b][a0, b0]
FGt(a, b) == FLt(b, a)
FGe(a, b) == FLe(b, a)
FEq(a0, b0) ==
    [a \in Int, b \in Int |->
        ~IsNaN(a) /\ ~IsNaN(b) /\ a = b][a0, b0]
FAbs(a0) ==
    [a \in Int |->
        IF IsNaN(a) THEN NaN ELSE Abs(a)][a0]
\* the fixed-point number n/d
Frac(n, d) == TDiv(n * FS, d)

RECURSIVE ISqrtIter(_, _, _)
ISqrtIter(n, lo, hi) ==
    IF lo >= hi THEN lo
    ELSE LET mid == (lo + hi + 1) \div 2
         IN  IF mid * mid <= n THEN ISqrtIter(n, mid, hi)
             ELSE ISqrtIter(n, lo, mid - 1)
\* floor of the integer square root
ISqrt(n) == ISqrtIter(n, 0, 46340)
\* std::sqrt
FSqrt(a0) ==
    [a \in Int |->
        IF IsNaN(a) \/ a < 0 THEN NaN
        ELSE IF a = PInf THEN PInf
        ELSE IF a <= 2000000 THEN ISqrt(a * FS)
        ELSE ISqrt(a \div 10) * 100][a0]
\* 2^f for f in [0,1), cubic fit
Pow2Frac(f) == FS + (f * (696 + (f * (225 + (f * 79) \div FS)) \div FS)) \div FS
\* std::exp
FExp(a0) ==
    [a \in Int |->
        IF IsNaN(a) THEN NaN
        ELSE IF a > 13 * FS THEN PInf
        ELSE IF a < (0 - 20) * FS THEN 0
        ELSE LET y == (a * 1443) \div FS
                 k == y \div FS
                 f == y % FS
             IN  IF k >= 0 THEN Sat(Pow2Frac(f) * (2 ^ k))
                 ELSE Pow2Frac(f) \div (2 ^ (0 - k))][a0]
\* math::clamp
FClamp(x0, lo0, hi0) ==
    [x \in Int, lo \in Int, hi \in Int |->
        IF FLt(x, lo) THEN lo ELSE IF FGt(x, hi) THEN hi ELSE x][x0, lo0, hi0]

RECURSIVE FLogIter(_, _, _)
FLogIter(x, lo, hi) ==
    IF lo >= hi THEN lo
    ELSE IF FExp((lo + hi + 1) \div 2) <= x THEN FLogIter(x, (lo + hi + 1) \div 2, hi)
    ELSE FLogIter(x, lo, (lo + hi + 1) \div 2 - 1)
\* std::log, the inverse of FExp
FLog(x0) ==
    [x \in Int |->
        IF IsNaN(x) \/ x < 0 THEN NaN
        ELSE IF x = 0 THEN NInf
        ELSE IF x = PInf THEN PInf
        ELSE FLogIter(x, (0 - 7) * FS, 13 * FS)][x0]
\* x^n for a natural number n
RECURSIVE FPowInt(_, _)
FPowInt(x, n) == IF n = 0 THEN FS ELSE FMul(x, FPowInt(x, n - 1))
\* the smallest r in lo..hi with r^k >= a
RECURSIVE FRootIter(_, _, _, _)
FRootIter(a, k, lo, hi) ==
    IF lo >= hi THEN lo
    ELSE IF FPowInt((lo + hi) \div 2, k) >= a THEN FRootIter(a, k, lo, (lo + hi) \div 2)
    ELSE FRootIter(a, k, (lo + hi) \div 2 + 1, hi)
\* the k-th root of a >= 0
FRoot(a, k) ==
    IF IsNaN(a) \/ a < 0 THEN NaN
    ELSE IF a = PInf THEN PInf
    ELSE FRootIter(a, k, 0, Max(a, FS))
\* cbrt
FCbrt(a0) ==
    [a \in Int |->
        IF IsNaN(a) THEN NaN ELSE IF a < 0 THEN FNeg(FRoot(0 - a, 3)) ELSE FRoot(a, 3)][a0]
\* std::pow(x, n/d) for x >= 0, a natural number d and an integer n
FPow(x, n, d) == IF n >= 0 THEN FPowInt(FRoot(x, d), n) ELSE FPowInt(FDiv(FS, FRoot(x, d)), 0 - n)
\* the sum of the terms, from left to right
RECURSIVE FSum(_)
FSum(terms) == IF Len(terms) = 0 THEN 0 ELSE FAdd(FSum(SubSeq(terms, 1, Len(terms) - 1)), terms[Len(terms)])
\* the product of the factors, from left to right
RECURSIVE FProd(_)
FProd(factors) == IF Len(factors) = 1 THEN factors[1] ELSE FMul(FProd(SubSeq(factors, 1, Len(factors) - 1)), factors[Len(factors)])

(***************************************************************************)
(* Vectors                                                                 *)
(***************************************************************************)
Vec(x, y, z) == <<x, y, z>>
ZeroVec == Vec(0, 0, 0)
NaNVec  == Vec(NaN, NaN, NaN)
VIsFinite(v) == IsFinite(v[1]) /\ IsFinite(v[2]) /\ IsFinite(v[3])
VIsZero(v)   == v = ZeroVec
VNeg(v)      == Vec(FNeg(v[1]), FNeg(v[2]), FNeg(v[3]))
VAdd(a, b)   == Vec(FAdd(a[1], b[1]), FAdd(a[2], b[2]), FAdd(a[3], b[3]))
VSub(a, b)   == Vec(FSub(a[1], b[1]), FSub(a[2], b[2]), FSub(a[3], b[3]))
VScale(k, v) == Vec(FMul(k, v[1]), FMul(k, v[2]), FMul(k, v[3]))
VDivS(v, k)  == Vec(FDiv(v[1], k), FDiv(v[2], k), FDiv(v[3], k))
Dot(a, b) == FAdd(FAdd(FMul(a[1], b[1]), FMul(a[2], b[2])), FMul(a[3], b[3]))
Cross(a, b) ==
    Vec(FSub(FMul(a[2], b[3]), FMul(a[3], b[2])),
        FSub(FMul(a[3], b[1]), FMul(a[1], b[3])),
        FSub(FMul(a[1], b[2]), FMul(a[2], b[1])))
LengthSquared(v) == Dot(v, v)
\* Vector::length(), taken on the raw components to keep the last digit
Length(v) ==
    IF ~VIsFinite(v)
    THEN (IF IsNaN(v[1]) \/ IsNaN(v[2]) \/ IsNaN(v[3]) THEN NaN ELSE PInf)
    ELSE IF Max(Abs(v[1]), Max(Abs(v[2]), Abs(v[3]))) > 26000
    THEN FSqrt(LengthSquared(v))
    ELSE ISqrt(v[1] * v[1] + v[2] * v[2] + v[3] * v[3])
Normalize(v) == VDivS(v, Length(v))


(***************************************************************************)
(* State                                                                   *)
(***************************************************************************)
VARIABLES
    medium,     \* the immutable optical parameters sigma_s, sigma_a, mu, m_eta
    debug,      \* TRUE in a build with MTS_FWDSCAT_DEBUG defined
    pc,         \* per query: where the query stands
    op,         \* per query: the operation called
    arg,        \* per query: the arguments of the call
    ret,        \* per query: the value returned
    sOut,       \* per query: the caller's length variable (Float &s)
    draws,      \* per query: number of calls made on the query's Sampler
    loc         \* per query: the locals of the running call

vars == <<medium, debug, pc, op, arg, ret, sOut, draws, loc>>

(***************************************************************************)
(* Parameter core                                                          *)
(***************************************************************************)
\* p = 0.5 * sigma_s * mu
HalfSigmaSMu(m) == FMul(FMul(FS \div 2, m.sigma_s), m.mu)

\* FwdScat::calcValues, the end: back from p = 1 to the actual p
calcValuesScaled(p, C, D, E, F, Z) == [C |-> C, D |-> D, E |-> FMul(E, p), F |-> FMul(F, FMul(p, p)), Z |-> Z]
\* FwdScat::calcValues, ps < 0.3: Z follows from the series of D, E and F
calcValuesSeries(p, C, D, E, F) == calcValuesScaled(p, C, D, E, F, FSub(FDiv(FMul(E, E), F), FMul(2 * FS, D)))
\* FwdScat::calcValues, ps < 0.3: the series, with ps3 = ps^3
calcValuesSmall(p, ps, ps3) ==
    calcValuesSeries(p, FDiv(3 * FS, ps),
        FSub(FAdd(FSub(FDiv(Frac(15, 10), ps), FMul(Frac(1, 10), ps)),
                  FMul(Frac(13, 1050), ps3)),
             FMul(Frac(11, 7875), FMul(FMul(ps, ps), ps3))),
        FDiv(FSub(FAdd(FDiv(Frac(45, 10), ps), FMul(Frac(3, 10), ps)),
                  FMul(Frac(3, 350), ps3)), ps),
        FDiv(FSub(FAdd(FDiv(Frac(45, 10), ps), FMul(Frac(18, 10), ps)),
                  FMul(Frac(3, 350), ps3)), FMul(ps, ps)))
\* FwdScat::calcValues, ps > 9: exp(-2 ps) is dropped from D, E and F
calcValuesLarge(p, ps, t) ==
    calcValuesScaled(p, FDiv(3 * FS, ps),
        FMul(Frac(75, 100), FDiv(FS, FSub(ps, FS))),
        FMul(Frac(150, 100), FDiv(FS, FSub(ps, FS))),
        FMul(Frac(150, 100), FDiv(FS, FSub(ps, FS))),
        FDiv(FMul(6 * FS, t), FSub(FS, FMul(t, t))))
\* FwdScat::calcValues, the exact expressions, with t = exp(-2 ps)
calcValuesExact(p, ps, t) ==
    calcValuesScaled(p, FDiv(3 * FS, ps),
        FDiv(FMul(Frac(75, 100),
                  FSub(FSub(FS, FMul(FMul(4 * FS, ps), t)), FMul(t, t))),
             FSub(FAdd(FSub(ps, FS), FMul(2 * FS, t)),
                  FMul(FAdd(ps, FS), FMul(t, t)))),
        FDiv(FMul(Frac(150, 100), FSub(FS, t)),
             FAdd(FSub(ps, FS), FMul(FAdd(ps, FS), t))),
        FDiv(FMul(Frac(150, 100), FAdd(FS, t)),
             FAdd(FSub(ps, FS), FMul(FAdd(ps, FS), t))),
        FDiv(FMul(6 * FS, t), FSub(FS, FMul(t, t))))
\* a selection of the regime that hands the two limits ps = 0.3 and ps = 9
\* to the series and to the asymptotic expressions
calcValuesBranchInclusive(ps) ==
    IF FLe(ps, Frac(3, 10)) THEN "series"
    ELSE IF FGe(ps, 9 * FS) THEN "asymptotic"
    ELSE "exact"
\* FwdScat::calcValues, the regime of ps: if (ps < 0.3) ... else if (ps > 9)
calcValuesBranch(ps) ==
    IF FLt(ps, Frac(3, 10)) THEN "series"
    ELSE IF FGt(ps, 9 * FS) THEN "asymptotic"
    ELSE "exact"
\* FwdScat::calcValues, the three regimes of ps, with ps3 = ps^3 and
\* t = exp(-2 ps)
calcValuesRegime(p, ps, ps3, t) ==
    CASE calcValuesBranch(ps) = "series" -> calcValuesSmall(p, ps, ps3)
      [] calcValuesBranch(ps) = "asymptotic" -> calcValuesLarge(p, ps, t)
      [] OTHER -> calcValuesExact(p, ps, t)
\* FwdScat::calcValues for ps = p * length
calcValuesPs(p, ps) == calcValuesRegime(p, ps, FMul(FMul(ps, ps), ps), FExp(FMul((0 - 2) * FS, ps)))
\* FwdScat::calcValues
calcValues(m, length) == calcValuesPs(HalfSigmaSMu(m), FMul(HalfSigmaSMu(m), length))

\* FwdScat::absorptionAndNormalizationConstant, ps < 0.006
normalizationSmallPs(p, ps, ps2, att) ==
    FMul(FMul(FMul(FMul(FMul(p, FMul(p, p)), Frac(80843, 1000000)), att),
              \* std::pow(ps, -11./2)
              FDiv(FS, FMul(FMul(FMul(ps2, ps2), ps), FSqrt(ps)))),
         FAdd(FAdd(FAdd(Frac(81, 32), FMul(Frac(891, 320), ps)),
                   FMul(Frac(8721, 6400), ps2)),
              FMul(FNeg(Frac(374841, 448000)), FMul(ps2, ps))))
\* Z / (exp(Z) - 1), by its series for a small Z
ZoverExpMinOne(Z) ==
    IF FLt(Z, Frac(2, 1000))
    THEN FSub(FAdd(FAdd(FS, FMul(FS \div 2, Z)), FMul(Frac(1, 12), FMul(Z, Z))),
              FMul(Frac(1, 720), FMul(FMul(Z, Z), FMul(Z, Z))))
    ELSE FDiv(Z, FSub(FExp(Z), FS))
\* FwdScat::absorptionAndNormalizationConstant, the full expression
normalizationFromValues(sigma_a, theLength, v) ==
    FMul(FMul(FMul(FMul(Frac(14291, 1000000),
                        FExp(FSub(FSub(v.C, v.D), FMul(sigma_a, theLength)))),
                   FSqrt(v.F)), v.F), ZoverExpMinOne(v.Z))
\* FwdScat::absorptionAndNormalizationConstant
absorptionAndNormalizationConstant(m, theLength) ==
    IF FLt(FMul(HalfSigmaSMu(m), theLength), Frac(6, 1000))
    THEN normalizationSmallPs(HalfSigmaSMu(m), FMul(HalfSigmaSMu(m), theLength),
             FMul(FMul(HalfSigmaSMu(m), theLength), FMul(HalfSigmaSMu(m), theLength)),
             FExp(FNeg(FMul(m.sigma_a, theLength))))
    ELSE normalizationFromValues(m.sigma_a, theLength, calcValues(m, theLength))


(***************************************************************************)
(* Collaborators consumed through their interface                          *)
(***************************************************************************)
\* 1 / MTS_FWDSCAT_DIRECTION_MIN_MU, the largest |H| the samplers admit
MaxInvMinMu == 10000 * FS

\* the unpolarized Fresnel reflectance from the two cosines
fresnelReflectance(cI, cT, eta) ==
    FMul(FS \div 2,
         FAdd(FMul(FDiv(FSub(cI, FMul(eta, cT)), FAdd(cI, FMul(eta, cT))),
                   FDiv(FSub(cI, FMul(eta, cT)), FAdd(cI, FMul(eta, cT)))),
              FMul(FDiv(FSub(FMul(eta, cI), cT), FAdd(FMul(eta, cI), cT)),
                   FDiv(FSub(FMul(eta, cI), cT), FAdd(FMul(eta, cI), cT)))))
\* fresnelDielectricExt, given the squared cosine of the transmitted direction
fresnelFromCosThetaTSqr(cosThetaI, eta, cosThetaTSqr) ==
    IF FLe(cosThetaTSqr, 0) THEN [F |-> FS, cosThetaT |-> 0]
    ELSE [F |-> fresnelReflectance(FAbs(cosThetaI), FSqrt(cosThetaTSqr), eta),
          cosThetaT |-> IF FGt(cosThetaI, 0) THEN FNeg(FSqrt(cosThetaTSqr))
                        ELSE FSqrt(cosThetaTSqr)]
\* fresnelDielectricExt: the Fresnel reflectance and the signed cosine of the
\* transmitted direction
fresnelDielectricExt(cosThetaI, eta) ==
    IF eta = FS THEN [F |-> 0, cosThetaT |-> FNeg(cosThetaI)]
    ELSE LET scale == IF FGt(cosThetaI, 0) THEN FDiv(FS, eta) ELSE eta
         IN  fresnelFromCosThetaTSqr(cosThetaI, eta,
                 FSub(FS, FMul(FSub(FS, FMul(cosThetaI, cosThetaI)),
                               FMul(scale, scale))))
\* refract, given the Fresnel term fr of the incident cosine
refractedDirection(wi, n, eta, cosThetaI, fr) ==
    LET eta2 == IF FLt(fr.cosThetaT, 0) THEN FDiv(FS, eta) ELSE eta
    IN  IF fr.F = FS THEN [dir |-> ZeroVec, F |-> fr.F]
        ELSE [dir |-> VSub(VScale(FAdd(FMul(eta2, cosThetaI), fr.cosThetaT), n),
                           VScale(eta2, wi)),
              F |-> fr.F]
\* refract(wi, n, eta, cosThetaT, F): the refracted direction (the zero
\* vector on total internal reflection) and the Fresnel reflectance
refract(wi, n, eta) == refractedDirection(wi, n, eta, Dot(wi, n), fresnelDielectricExt(Dot(wi, n), eta))

\* fresnelDiffuseReflectance
fresnelDiffuseReflectance(eta) ==
    IF eta = FS THEN 0
    ELSE IF FLt(eta, FS)
    THEN FAdd(FSub(FAdd(FNeg(Frac(4399, 10000)), FDiv(Frac(7099, 10000), eta)),
                   FDiv(Frac(3319, 10000), FMul(eta, eta))),
              FDiv(Frac(636, 10000), FMul(eta, FMul(eta, eta))))
    ELSE FAdd(FAdd(FAdd(FDiv(FNeg(Frac(14399, 10000)), FMul(eta, eta)),
                        FDiv(Frac(7099, 10000), eta)),
                   Frac(6681, 10000)),
              FMul(Frac(636, 10000), eta))

\* (1 + Fdr) / (1 - Fdr)
boundaryCoefficient(Fdr) == FDiv(FAdd(FS, Fdr), FSub(FS, Fdr))
\* dEon_A: the boundary coefficient A(eta) of the improved dipole
dEon_A(eta) == boundaryCoefficient(fresnelDiffuseReflectance(FDiv(FS, eta)))

(***************************************************************************)
(* Virtual source constructor                                              *)
(***************************************************************************)
TangentModes == {"EFrisvadEtAl", "EFrisvadEtAlWithMeanNormal",
                 "EUnmodifiedIncoming", "EUnmodifiedOutgoing"}
ZvModes == {"EFrisvadEtAlZv", "EBetterDipoleZv", "EClassicDiffusion"}
\* enum DipoleMode: bit 1 is EReal, bit 2 is EVirt
EReal == 1
EVirt == 2
ERealAndVirt == 3
HasBit(mode, bit) == (mode \div bit) % 2 = 1

\* the value a failed construction leaves in its outputs: they are not written
Unwritten == NaNVec

\* the modified tangent plane of Frisvad et al. for the normal nrm
frisvadNormal(n0, nrm, R) ==
    IF Length(R) = 0 THEN [kind |-> "ok", n |-> n0]
    ELSE IF Length(Cross(nrm, R)) = 0 THEN [kind |-> "fail", n |-> Unwritten]
    ELSE [kind |-> "ok", n |-> Cross(Normalize(R), Normalize(Cross(nrm, R)))]
\* a construction that lets every effective normal through
finiteNormalUnchecked(chosen) == chosen
\* the check that the effective normal is finite
finiteNormal(chosen) ==
    IF chosen.kind = "ok" /\ ~VIsFinite(chosen.n)
    THEN [kind |-> "fail", n |-> Unwritten]
    ELSE chosen
\* Step 1 of FwdScat::getVirtualDipoleSource: the effective normal.
\* kind is "ok", "fail" (return false) or "error" (Log(EError, ...))
effectiveNormal(n0, nL, R, tangentMode) ==
    finiteNormal(CASE tangentMode = "EFrisvadEtAl" -> frisvadNormal(n0, n0, R)
                   [] tangentMode = "EFrisvadEtAlWithMeanNormal" -> frisvadNormal(n0, VAdd(n0, nL), R)
                   [] tangentMode = "EUnmodifiedIncoming" -> [kind |-> "ok", n |-> n0]
                   [] tangentMode = "EUnmodifiedOutgoing" -> [kind |-> "ok", n |-> nL]
                   [] OTHER -> [kind |-> "error", n |-> Unwritten])

\* a default branch that reports the unknown mode as a failed construction
unknownZvModeReturnsFalse(zvMode) == [kind |-> "fail", zv |-> NaN]
\* the default branch of the switch on zvMode: Log(EError, ...)
unknownZvMode(zvMode) == [kind |-> "error", zv |-> NaN]

\* a switch on zvMode in which the mode of Frisvad et al. tests sigma_tp only
virtualSourceHeightUnguarded(m, zvMode, sigma_sp, sigma_tp) ==
    CASE zvMode = "EFrisvadEtAlZv" ->
           IF sigma_tp = 0 THEN [kind |-> "fail", zv |-> NaN]
           ELSE [kind |-> "ok",
                 zv |-> FMul(FMul(2 * FS, dEon_A(m.eta)),
                             FDiv(FMul(Frac(2131, 1000), FDiv(FS, FMul(3 * FS, sigma_tp))),
                                  FSqrt(FDiv(sigma_sp, sigma_tp))))]
      [] zvMode = "EBetterDipoleZv" ->
           IF sigma_tp = 0 THEN [kind |-> "fail", zv |-> NaN]
           ELSE [kind |-> "ok",
                 zv |-> FMul(FMul(4 * FS, dEon_A(m.eta)),
                             FDiv(FAdd(FMul(2 * FS, m.sigma_a), sigma_sp),
                                  FMul(3 * FS, FMul(sigma_tp, sigma_tp))))]
      [] zvMode = "EClassicDiffusion" ->
           IF sigma_tp = 0 THEN [kind |-> "fail", zv |-> NaN]
           ELSE [kind |-> "ok",
                 zv |-> FMul(FMul(4 * FS, boundaryCoefficient(
                                              fresnelDiffuseReflectance(FDiv(FS, m.eta)))),
                             FDiv(FS, FMul(3 * FS, sigma_tp)))]
      [] OTHER -> unknownZvMode(zvMode)
\* Step 3 of FwdScat::getVirtualDipoleSource: the extrapolation distance zv
\* for sigma_sp = sigma_s * mu and sigma_tp = sigma_sp + sigma_a
virtualSourceHeightOf(m, zvMode, sigma_sp, sigma_tp) ==
    CASE zvMode = "EFrisvadEtAlZv" ->
           IF sigma_tp = 0 \/ sigma_sp = 0 THEN [kind |-> "fail", zv |-> NaN]
           ELSE [kind |-> "ok",
                 zv |-> FMul(FMul(2 * FS, dEon_A(m.eta)),
                             FDiv(FMul(Frac(2131, 1000), FDiv(FS, FMul(3 * FS, sigma_tp))),
                                  FSqrt(FDiv(sigma_sp, sigma_tp))))]
      [] zvMode = "EBetterDipoleZv" ->
           IF sigma_tp = 0 THEN [kind |-> "fail", zv |-> NaN]
           ELSE [kind |-> "ok",
                 zv |-> FMul(FMul(4 * FS, dEon_A(m.eta)),
                             FDiv(FAdd(FMul(2 * FS, m.sigma_a), sigma_sp),
                                  FMul(3 * FS, FMul(sigma_tp, sigma_tp))))]
      [] zvMode = "EClassicDiffusion" ->
           IF sigma_tp = 0 THEN [kind |-> "fail", zv |-> NaN]
           ELSE [kind |-> "ok",
                 zv |-> FMul(FMul(4 * FS, boundaryCoefficient(
                                              fresnelDiffuseReflectance(FDiv(FS, m.eta)))),
                             FDiv(FS, FMul(3 * FS, sigma_tp)))]
      [] OTHER -> unknownZvMode(zvMode)
\* Step 3 of FwdScat::getVirtualDipoleSource
virtualSourceHeight(m, zvMode) == virtualSourceHeightOf(m, zvMode, FMul(m.sigma_s, m.mu), FAdd(FMul(m.sigma_s, m.mu), m.sigma_a))

\* a displacement of u along n that stops in the plane
MirrorOntoPlane(u, n) == VSub(u, VScale(Dot(n, u), n))
\* the mirror image of u in the plane with normal n
Mirror(u, n) == VSub(u, VScale(FMul(2 * FS, Dot(n, u)), n))

\* what a call of getVirtualDipoleSource that does not succeed leaves behind
virtualSourceFailure(kind) == [kind |-> kind, u0_virt |-> Unwritten, R_virt |-> Unwritten, n0_effective |-> Unwritten]
\* steps 2 to 4 with an entry check that also rejects a direction along the
\* tangent plane
virtualSourceFromNormalGrazing(m, u0, R, rejectInternalIncoming, zvMode, step1) ==
    IF step1.kind # "ok" THEN virtualSourceFailure(step1.kind)
    ELSE IF rejectInternalIncoming /\ FGe(Dot(step1.n, u0), 0) THEN virtualSourceFailure("fail")
    ELSE IF virtualSourceHeight(m, zvMode).kind # "ok" THEN virtualSourceFailure(virtualSourceHeight(m, zvMode).kind)
    ELSE [kind |-> "ok",
          u0_virt |-> Mirror(u0, step1.n),
          R_virt |-> VSub(R, VScale(virtualSourceHeight(m, zvMode).zv, step1.n)),
          n0_effective |-> step1.n]
\* FwdScat::getVirtualDipoleSource, steps 2 to 4 on the outcome of step 1
virtualSourceFromNormal(m, u0, R, rejectInternalIncoming, zvMode, step1) ==
    IF step1.kind # "ok" THEN virtualSourceFailure(step1.kind)
    ELSE IF rejectInternalIncoming /\ FGt(Dot(step1.n, u0), 0) THEN virtualSourceFailure("fail")
    ELSE IF virtualSourceHeight(m, zvMode).kind # "ok" THEN virtualSourceFailure(virtualSourceHeight(m, zvMode).kind)
    ELSE [kind |-> "ok",
          u0_virt |-> Mirror(u0, step1.n),
          R_virt |-> VSub(R, VScale(virtualSourceHeight(m, zvMode).zv, step1.n)),
          n0_effective |-> step1.n]
\* FwdScat::getVirtualDipoleSource
getVirtualDipoleSource(m, n0, u0, nL, uL, R, length, rejectInternalIncoming, tangentMode, zvMode) == virtualSourceFromNormal(m, u0, R, rejectInternalIncoming, zvMode, effectiveNormal(n0, nL, R, tangentMode))


(***************************************************************************)
(* Kernel evaluator                                                        *)
(***************************************************************************)
PiF == Frac(314159, 100000)

\* the debug check of evalMonopole: an invalid G is reported and replaced
checkedG(dbg, G) == IF dbg /\ (~IsFinite(G) \/ FLt(G, 0)) THEN 0 ELSE G
\* FwdScat::evalMonopole, from H = E R - D uL and its length lHl
monopoleFromH(dbg, u0, uL, R, v, N, H, lHl) ==
    checkedG(dbg,
        FMul(N, FExp(FSub(FAdd(FAdd(FNeg(v.C), FMul(v.E, Dot(R, uL))),
                               FMul(IF FGt(lHl, MaxInvMinMu) THEN MaxInvMinMu ELSE lHl,
                                    FClamp(Dot(u0, VDivS(H, lHl)), 0 - FS, FS))),
                          FMul(v.F, LengthSquared(R))))))
\* FwdScat::evalMonopole, from the shape parameters v and the normalization N
monopoleFromValues(dbg, u0, uL, R, v, N) == monopoleFromH(dbg, u0, uL, R, v, N, VSub(VScale(v.E, R), VScale(v.D, uL)), Length(VSub(VScale(v.E, R), VScale(v.D, uL))))
\* FwdScat::evalMonopole
evalMonopole(m, dbg, u0, uL, R, length) == monopoleFromValues(dbg, u0, uL, R, calcValues(m, length), absorptionAndNormalizationConstant(m, length))

\* a non-finite plane-source value is returned as 0
finiteOrZero(result) == IF ~IsFinite(result) THEN 0 ELSE result
\* FwdScat::evalPlaneSource, from the shape parameters v, the normalization N
\* and the z components of the directions
planeSourceFromValues(v, N, u0uL, zsum, Rz) ==
    finiteOrZero(
        FMul(FDiv(FMul(N, PiF), v.F),
             FExp(FSub(FAdd(FSub(FSub(
                     FMul(FDiv(FDiv(FMul(v.E, v.E), 4 * FS), v.F),
                          FSub(FAdd(2 * FS, FMul(2 * FS, u0uL)), FMul(zsum, zsum))),
                     FMul(v.D, u0uL)),
                     v.C),
                     FMul(FMul(v.E, Rz), zsum)),
                     FMul(v.F, FMul(Rz, Rz))))))
\* FwdScat::evalPlaneSource
evalPlaneSource(m, u0, uL, n, Rz, length) == planeSourceFromValues(calcValues(m, length), absorptionAndNormalizationConstant(m, length), Dot(u0, uL), FAdd(Dot(u0, n), Dot(uL, n)), Rz)

\* what a call of evalDipole ends in: a returned value, or Log(EError, ...)
Returned(x) == [err |-> FALSE, val |-> x]
ConfigError == [err |-> TRUE, val |-> 0]

\* an entry check that lets a grazing direction through
entryRejectedStrict(u0_external, n0) == FGt(Dot(u0_external, n0), 0)
\* the exit check of evalDipole: uL_external must leave through nL
exitRejected(uL_external, nL) == VIsFinite(nL) /\ FLe(Dot(uL_external, nL), 0)
\* the entry check of evalDipole
\* (MTS_FWDSCAT_DIPOLE_REJECT_INCOMING_WRT_TRUE_SURFACE_NORMAL is true)
entryRejected(u0_external, n0) == FGe(Dot(u0_external, n0), 0)

\* the switch on dipoleMode, for the recognized selectors
dipoleTransport(dipoleMode, real, virt) ==
    CASE dipoleMode = ERealAndVirt -> FSub(real, virt)
      [] dipoleMode = EReal -> real
      [] dipoleMode = EVirt -> virt
\* the end of evalDipole: the average with the time-reversed evaluation rev
\* when reciprocal is set
dipoleResult(reciprocal, transport, rev, fresnelTransmittance) ==
    IF reciprocal
    THEN (IF rev.err THEN ConfigError
          ELSE Returned(FMul(FMul(FS \div 2, FAdd(transport, rev.val)), fresnelTransmittance)))
    ELSE Returned(FMul(transport, fresnelTransmittance))

RECURSIVE evalDipole(_, _, _, _, _, _, _, _, _, _, _, _, _, _)
\* evalDipoleInternal with the effective-BRDF return moved behind the switch
\* on dipoleMode
evalDipoleInternalSelectorFirst(m, dbg, n0, u0, nL, uL, R, length, rejectInternalIncoming, reciprocal, tangentMode, zvMode, useEffectiveBRDF, dipoleMode, fresnelTransmittance, vs) ==
    IF vs.kind = "error" THEN ConfigError
    ELSE IF vs.kind = "fail" THEN Returned(0)
    ELSE IF dipoleMode \notin {EReal, EVirt, ERealAndVirt} THEN ConfigError
    ELSE IF useEffectiveBRDF
    THEN Returned(FMul(fresnelTransmittance,
             FSub(evalPlaneSource(m, u0, uL, nL, 0, length),
                  evalPlaneSource(m, vs.u0_virt, uL, nL, Dot(vs.R_virt, nL), length))))
    ELSE dipoleResult(reciprocal,
             dipoleTransport(dipoleMode,
                 IF HasBit(dipoleMode, EReal)
                 THEN evalMonopole(m, dbg, u0, uL, R, length) ELSE 0,
                 IF HasBit(dipoleMode, EVirt)
                 THEN evalMonopole(m, dbg, vs.u0_virt, uL, vs.R_virt, length) ELSE 0),
             evalDipole(m, dbg, nL, VNeg(uL), n0, VNeg(u0), VNeg(R), length,
                        rejectInternalIncoming, FALSE, tangentMode, zvMode,
                        useEffectiveBRDF, dipoleMode),
             fresnelTransmittance)
\* FwdScat::evalDipole, on the internal directions u0 and uL and the virtual
\* source vs
evalDipoleInternal(m, dbg, n0, u0, nL, uL, R, length, rejectInternalIncoming, reciprocal, tangentMode, zvMode, useEffectiveBRDF, dipoleMode, fresnelTransmittance, vs) ==
    IF vs.kind = "error" THEN ConfigError
    ELSE IF vs.kind = "fail" THEN Returned(0)
    ELSE IF useEffectiveBRDF
    THEN Returned(FMul(fresnelTransmittance,
             FSub(evalPlaneSource(m, u0, uL, nL, 0, length),
                  evalPlaneSource(m, vs.u0_virt, uL, nL, Dot(vs.R_virt, nL), length))))
    ELSE IF dipoleMode \notin {EReal, EVirt, ERealAndVirt} THEN ConfigError
    ELSE dipoleResult(reciprocal,
             dipoleTransport(dipoleMode,
                 IF HasBit(dipoleMode, EReal)
                 THEN evalMonopole(m, dbg, u0, uL, R, length) ELSE 0,
                 IF HasBit(dipoleMode, EVirt)
                 THEN evalMonopole(m, dbg, vs.u0_virt, uL, vs.R_virt, length) ELSE 0),
             evalDipole(m, dbg, nL, VNeg(uL), n0, VNeg(u0), VNeg(R), length,
                        rejectInternalIncoming, FALSE, tangentMode, zvMode,
                        useEffectiveBRDF, dipoleMode),
             fresnelTransmittance)
\* FwdScat::evalDipole, after the refraction r0 of the entry direction and rL
\* of the exit direction
evalDipoleRefracted(m, dbg, n0, nL, R, length, rejectInternalIncoming, reciprocal, tangentMode, zvMode, useEffectiveBRDF, dipoleMode, r0, rL) ==
    IF VIsZero(r0.dir) \/ VIsZero(VNeg(rL.dir)) THEN Returned(0)
    ELSE evalDipoleInternal(m, dbg, n0, r0.dir, nL, VNeg(rL.dir), R, length,
             rejectInternalIncoming, reciprocal, tangentMode, zvMode,
             useEffectiveBRDF, dipoleMode,
             FMul(FSub(FS, r0.F), FSub(FS, rL.F)),
             getVirtualDipoleSource(m, n0, r0.dir, nL, VNeg(rL.dir), R, length,
                 rejectInternalIncoming, tangentMode, zvMode))
\* FwdScat::evalDipole
evalDipole(m, dbg, n0, u0_external, nL, uL_external, R, length, rejectInternalIncoming, reciprocal, tangentMode, zvMode, useEffectiveBRDF, dipoleMode) ==
    IF exitRejected(uL_external, nL) THEN Returned(0)
    ELSE IF entryRejected(u0_external, n0) THEN Returned(0)
    ELSE evalDipoleRefracted(m, dbg, n0, nL, R, length, rejectInternalIncoming,
             reciprocal, tangentMode, zvMode, useEffectiveBRDF, dipoleMode,
             refract(VNeg(u0_external), n0, m.eta), refract(uL_external, nL, m.eta))


(***************************************************************************)
(* Queries                                                                 *)
(***************************************************************************)
Queries == {1, 2}
NoArg == [none |-> TRUE]
NoRet == [err |-> FALSE, val |-> NaN]
\* the locals of a call before they are written
NoLoc ==
    [R_virt |-> Unwritten, R_effective |-> Unwritten, R_other |-> Unwritten,
     strategy |-> "none", fit |-> [none |-> TRUE], fac |-> NaN, retries |-> 0,
     A |-> NaN, u |-> NaN, hi |-> NaN, cdfHi |-> NaN, expansions |-> 0,
     iterations |-> 0, threw |-> FALSE, pdf |-> NaN,
     u0 |-> Unwritten, n0_effective |-> Unwritten, realSourceWeight |-> NaN,
     branch |-> "none", checked |-> {}, pdfCheck |-> NaN, warned |-> FALSE,
     uStrategy |-> NaN, uBranch |-> NaN, evals |-> {},
     source |-> [kind |-> "none"], values |-> [none |-> TRUE]]

\* the optical parameters of the media of the bounded model
Medium(sigma_s, sigma_a, mu, eta) ==
    [sigma_s |-> sigma_s, sigma_a |-> sigma_a, mu |-> mu, eta |-> eta]

\* one query is idle and the medium, once constructed, is never written
InitQueries ==
    /\ pc = [q \in Queries |-> "idle"]
    /\ op = [q \in Queries |-> "none"]
    /\ arg = [q \in Queries |-> NoArg]
    /\ ret = [q \in Queries |-> NoRet]
    /\ sOut = [q \in Queries |-> NaN]
    /\ draws = [q \in Queries |-> 0]
    /\ loc = [q \in Queries |-> NoLoc]

(***************************************************************************)
(* evaluate-kernel                                                         *)
(***************************************************************************)
ez == Vec(0, 0, FS)
ex == Vec(FS, 0, 0)
Geometry(n0, u0, nL, uL, R) == [n0 |-> n0, u0 |-> u0, nL |-> nL, uL |-> uL, R |-> R]
EvalMedia == {Medium(FS, 0, FS, FS), Medium(FS, FS \div 2, FS, FS \div 2)}
\* entry and exit configurations: regular ones, an entry direction leaving or
\* grazing the surface, an exit direction along the surface, an oblique entry
\* (totally reflected when eta < 1), R = 0, R along a normal
EvalGeometries ==
    {Geometry(ez, Vec(0, 0, 0 - FS), ez, Vec(0, 0, FS), Vec(500, 0, 0)),
     Geometry(ez, Vec(0, 0, 0 - FS), ez, Vec(600, 0, 800), Vec(300, 0, 400)),
     Geometry(ez, Vec(0, 0, 0 - FS), ex, Vec(FS, 0, 0), Vec(500, 0, 0)),
     Geometry(ez, Vec(0, 0, 0 - FS), ez, Vec(0, 0, FS), ZeroVec),
     Geometry(ez, Vec(0 - 800, 0, 0 - 600), ez, Vec(0, 0, FS), Vec(300, 0, 400)),
     Geometry(ez, Vec(0, 0, FS), ez, Vec(0, 0, FS), Vec(500, 0, 0)),
     Geometry(ez, Vec(FS, 0, 0), ez, Vec(0, 0, FS), Vec(500, 0, 0)),
     Geometry(ez, Vec(0, 0, 0 - FS), ez, Vec(FS, 0, 0), Vec(500, 0, 0))}
EvalLengths == {FS}
EvalTangentModes == TangentModes \cup {"EUnknownTangentMode"}
EvalZvModes == ZvModes \cup {"EUnknownZvMode"}
EvalDipoleModes == {EReal, EVirt, ERealAndVirt, 0}

InitEval ==
    /\ medium \in EvalMedia
    /\ debug \in BOOLEAN
    /\ InitQueries

\* a call of evalDipole by query q, with arguments from the given sets
EvalDipoleCallWith(q, geometries, flags, tangentModes, zvModes, dipoleModes) ==
    /\ pc[q] = "idle"
    /\ \E g \in geometries, length \in EvalLengths,
          rej \in flags, reciprocal \in flags, brdf \in flags,
          tm \in tangentModes, zm \in zvModes, dm \in dipoleModes :
          /\ arg' = [arg EXCEPT ![q] =
                 [n0 |-> g.n0, u0 |-> g.u0, nL |-> g.nL, uL |-> g.uL, R |-> g.R,
                  length |-> length, rejectInternalIncoming |-> rej,
                  reciprocal |-> reciprocal, tangentMode |-> tm, zvMode |-> zm,
                  useEffectiveBRDF |-> brdf, dipoleMode |-> dm]]
          /\ ret' = [ret EXCEPT ![q] =
                 evalDipole(medium, debug, g.n0, g.u0, g.nL, g.uL, g.R, length, rej,
                            reciprocal, tm, zm, brdf, dm)]
    /\ op' = [op EXCEPT ![q] = "evalDipole"]
    /\ pc' = [pc EXCEPT ![q] = "done"]
    /\ UNCHANGED <<medium, debug, sOut, draws, loc>>

EvalDipoleCall(q) == EvalDipoleCallWith(q, EvalGeometries, BOOLEAN, EvalTangentModes, EvalZvModes, EvalDipoleModes)

NextEval == EvalDipoleCall(1)
SpecEval == InitEval /\ [][NextEval]_vars

(***************************************************************************)
(* Properties of evaluate-kernel                                           *)
(***************************************************************************)
EvalDone(q) == pc[q] = "done" /\ op[q] = "evalDipole"
\* evalDipole on the arguments recorded in a
evalDipoleOf(a) ==
    evalDipole(medium, debug, a.n0, a.u0, a.nL, a.uL, a.R, a.length,
               a.rejectInternalIncoming, a.reciprocal, a.tangentMode, a.zvMode,
               a.useEffectiveBRDF, a.dipoleMode)
\* the internal (refracted) directions of the call with arguments a
InternalU0(a) == refract(VNeg(a.u0), a.n0, medium.eta).dir
InternalUL(a) == VNeg(refract(a.uL, a.nL, medium.eta).dir)
RefractionFails(a) == VIsZero(InternalU0(a)) \/ VIsZero(InternalUL(a))
\* the call is turned down before any mode selector is looked at
RejectedOnEntry(a) ==
    \/ (VIsFinite(a.nL) /\ FLe(Dot(a.uL, a.nL), 0))
    \/ FGe(Dot(a.u0, a.n0), 0)
    \/ RefractionFails(a)
KnownModes(a) ==
    /\ a.tangentMode \in TangentModes
    /\ a.zvMode \in ZvModes
    /\ a.dipoleMode \in {EReal, EVirt, ERealAndVirt}

\* C1: evalDipole returns exactly 0 when the external entry direction does
\* not point inward through n0 (dot(u0_external, n0) >= 0) and when the
\* refraction of either external direction fails, whatever the flags and the
\* three mode selectors are.
C1_EntryRejectionReturnsZero ==
    \A q \in Queries :
        (EvalDone(q) /\ (FGe(Dot(arg[q].u0, arg[q].n0), 0) \/ RefractionFails(arg[q])))
            => ret[q] = Returned(0)
\* a totally reflected entry direction, with selectors no switch knows
C1_TotalReflectionReturnedZero ==
    \E q \in Queries :
        /\ EvalDone(q)
        /\ FLt(Dot(arg[q].u0, arg[q].n0), 0)
        /\ FGt(Dot(arg[q].uL, arg[q].nL), 0)
        /\ VIsZero(InternalU0(arg[q]))
        /\ arg[q].tangentMode \notin TangentModes
        /\ arg[q].dipoleMode = 0
        /\ ret[q] = Returned(0)

\* reverse(config): entry and exit swap roles, directions and R are negated
Reverse(a) ==
    [a EXCEPT !.n0 = a.nL, !.u0 = VNeg(a.uL), !.nL = a.n0, !.uL = VNeg(a.u0),
              !.R = VNeg(a.R)]
\* C2: with reciprocal = true, evalDipole(config) = evalDipole(reverse(config))
\* for every configuration with recognized modes, also when one of the two
\* orientations is rejected.
C2_ReciprocalSymmetry ==
    \A q \in Queries :
        (EvalDone(q) /\ arg[q].reciprocal /\ KnownModes(arg[q]))
            => ret[q] = evalDipoleOf(Reverse(arg[q]))

\* the virtual source of the call with arguments a, built on the internal
\* directions
VirtualSourceOf(a) ==
    getVirtualDipoleSource(medium, a.n0, InternalU0(a), a.nL, InternalUL(a), a.R,
                           a.length, a.rejectInternalIncoming, a.tangentMode,
                           a.zvMode)
\* the call gets as far as the switch on the tangent-plane mode
ReachesTangentSwitch(a) == ~RejectedOnEntry(a)
\* the call gets as far as the switch on the virtual-source-height mode
ReachesZvSwitch(a) ==
    /\ ~RejectedOnEntry(a)
    /\ LET step1 == effectiveNormal(a.n0, a.nL, a.R, a.tangentMode)
       IN  /\ step1.kind = "ok"
           /\ ~(a.rejectInternalIncoming /\ FGt(Dot(step1.n, InternalU0(a)), 0))
\* the call gets as far as the switch on the dipole-component selector
ReachesDipoleSwitch(a) ==
    /\ ~RejectedOnEntry(a)
    /\ VirtualSourceOf(a).kind = "ok"
    /\ ~a.useEffectiveBRDF
UnknownMode(a) ==
    \/ a.tangentMode \notin TangentModes
    \/ a.zvMode \notin ZvModes
    \/ a.dipoleMode \notin {EReal, EVirt, ERealAndVirt}

\* C5 as stated: every call of evalDipole with an unrecognized tangent-plane
\* mode, virtual-source-height mode or dipole-component selector ends in the
\* hard configuration error, for every geometry and every flag.
C5_UnknownModeAlwaysHardError ==
    \A q \in Queries :
        (EvalDone(q) /\ UnknownMode(arg[q])) => ret[q].err
\* C5 (amended): a call of evalDipole ends in the hard configuration error
\* exactly when it reaches the switch on an unrecognized selector.  The entry,
\* exit and refraction rejections come before every switch, the failures of
\* steps 1 and 2 of the construction before the switch on the height mode, a
\* failed construction and useEffectiveBRDF before the switch on the dipole
\* selector; a call turned down there returns a value instead.
C5_UnknownModeHardErrorWhenReached ==
    \A q \in Queries :
        EvalDone(q) =>
            LET a == arg[q]
            IN  ret[q].err <=>
                    \/ (a.tangentMode \notin TangentModes /\ ReachesTangentSwitch(a))
                    \/ (a.tangentMode \in TangentModes /\ a.zvMode \notin ZvModes
                        /\ ReachesZvSwitch(a))
                    \/ (a.tangentMode \in TangentModes /\ a.zvMode \in ZvModes
                        /\ a.dipoleMode \notin {EReal, EVirt, ERealAndVirt}
                        /\ ReachesDipoleSwitch(a))
\* an unrecognized height mode that the call reaches, and reports
C5_UnknownZvModeReported ==
    \E q \in Queries :
        /\ EvalDone(q)
        /\ arg[q].tangentMode \in TangentModes
        /\ arg[q].zvMode \notin ZvModes
        /\ ReachesZvSwitch(arg[q])
        /\ ret[q] = ConfigError

(***************************************************************************)
(* Length sampling: strategy weights, pdfs and fits                        *)
(***************************************************************************)
\* Strategy weights, must sum to one
lengthSample_w1 == FS \div 2
lengthSample_w2 == FS \div 2
lengthSample_w3 == 0

\* truncnormPdf(mean, stddev, lo, hi, x): the normal density on [lo, hi]; the
\* mass of the interval, by which the primitive divides, is taken as 1
truncnormPdf(mean, stddev, lo, hi, x) ==
    IF FLt(x, lo) \/ FGt(x, hi) THEN 0
    ELSE FDiv(FExp(FMul(FNeg(FS \div 2),
                        FMul(FDiv(FSub(x, mean), stddev), FDiv(FSub(x, mean), stddev)))),
              FMul(stddev, Frac(25066, 10000)))

\* a tentative construction with the height of Frisvad et al.
getTentativeWithFrisvadHeight(m, n0, nL, uL, R, s, tangentMode) == getVirtualDipoleSource(m, n0, NaNVec, nL, uL, R, s, FALSE, tangentMode, "EFrisvadEtAlZv")
\* FwdScat::getTentativeIndexMatchedVirtualSourceDisp: u0 is not known yet
\* (NaN), no rejection, zvMode EClassicDiffusion
getTentativeIndexMatchedVirtualSourceDisp(m, n0, nL, uL, R, s, tangentMode) == getVirtualDipoleSource(m, n0, NaNVec, nL, uL, R, s, FALSE, tangentMode, "EClassicDiffusion")

\* an absorption strategy that is used in a medium without absorption as well
absorptionNeverDisabled(m) == FALSE
\* sampleLengthAbsorption and pdfLengthAbsorption: if (sigma_a == 0)
absorptionDisabled(m) == m.sigma_a = 0
\* FwdScat::pdfLengthAbsorption
pdfLengthAbsorption(m, s) == IF absorptionDisabled(m) THEN 0 ELSE FMul(m.sigma_a, FExp(FNeg(FMul(m.sigma_a, s))))

\* beta = 3/2 * (|R p|^2 - dot(R p, uL))
longLimitBeta(p, R, uL) == FMul(Frac(3, 2), FSub(LengthSquared(VScale(p, R)), Dot(VScale(p, R), uL)))
\* FwdScat::pdfLengthLongLimit, the pdf for p = 1
pdfLongLimitP1(beta, a_p1, s_p1) ==
    FMul(FDiv(FSqrt(FDiv(beta, PiF)), FMul(s_p1, FSqrt(s_p1))),
         FExp(FSum(<<FNeg(FDiv(beta, s_p1)), FNeg(FMul(a_p1, s_p1)),
                     FMul(2 * FS, FSqrt(FMul(beta, a_p1)))>>)))
\* FwdScat::pdfLengthLongLimit, the end: a non-finite pdf is returned as 0
pdfLongLimitScaled(p, pdf_p1) == IF ~IsFinite(pdf_p1) THEN 0 ELSE FMul(pdf_p1, p)
\* a pdfLengthLongLimit that goes to the absorption pdf for beta < 0 only
pdfLengthLongLimitBetaStrict(m, p, beta, s) ==
    IF FLt(beta, 0) THEN pdfLengthAbsorption(m, s)
    ELSE pdfLongLimitScaled(p, pdfLongLimitP1(beta, FDiv(m.sigma_a, p), FMul(s, p)))
\* FwdScat::pdfLengthLongLimit for p # 0
pdfLengthLongLimitBeta(m, p, beta, s) ==
    IF FLe(beta, 0) THEN pdfLengthAbsorption(m, s)
    ELSE pdfLongLimitScaled(p, pdfLongLimitP1(beta, FDiv(m.sigma_a, p), FMul(s, p)))
\* FwdScat::pdfLengthLongLimit
pdfLengthLongLimit(m, R, uL, s) ==
    IF HalfSigmaSMu(m) = 0 THEN 0
    ELSE pdfLengthLongLimitBeta(m, HalfSigmaSMu(m), longLimitBeta(HalfSigmaSMu(m), R, uL), s)

\* implLengthShortLimitKnownU0: r = |R| p
shortLimitR(m, R) == FMul(Length(R), HalfSigmaSMu(m))
\* implLengthShortLimitKnownU0: cosTheta0L
knownU0CosTheta0L(R, u0, uL) == FAdd(FClamp(FDiv(Dot(R, u0), Length(R)), 0 - FS, FS), FClamp(FDiv(Dot(R, uL), Length(R)), 0 - FS, FS))
\* implLengthShortLimitKnownU0, r > 1e-4: t25, with c = cosTheta0L and
\* u = u0dotuL
knownU0T25(r, c, u) ==
    FSum(<<FProd(<<(0 - 108) * FS, r, u, c>>), FProd(<<96 * FS, c, c, c, r>>),
           FProd(<<(0 - 216) * FS, r, c>>), FProd(<<(0 - 4) * FS, c, c, u, u>>),
           FProd(<<(0 - 16) * FS, c, c, u>>), FProd(<<4 * FS, u, u, u>>),
           FProd(<<243 * FS, r, r>>), FProd(<<(0 - 16) * FS, c, c>>),
           FProd(<<24 * FS, u, u>>), FMul(48 * FS, u), 32 * FS>>)
\* implLengthShortLimitKnownU0, r > 1e-4: t34
knownU0T34(r, c, u, t25) ==
    FCbrt(FSum(<<FProd(<<12 * FS, FSqrt(t25), FSqrt(3 * FS)>>),
                 FNeg(FProd(<<72 * FS, c, u>>)), FMul(324 * FS, r),
                 FProd(<<64 * FS, c, c, c>>), FNeg(FMul(144 * FS, c))>>))
\* implLengthShortLimitKnownU0, r > 1e-4: t42
knownU0T42(c, u, t1, t34) == FProd(<<FDiv(FS, t34), t1, FSum(<<FProd(<<(0 - 4) * FS, c, c>>), FMul(3 * FS, u), 6 * FS>>)>>)
\* implLengthShortLimitKnownU0, r > 1e-4: t46
knownU0T46(t35, t42, t44) == FAdd(FDiv(t35, 18 * FS), FMul(Frac(2, 9), FSub(t44, t42)))
\* implLengthShortLimitKnownU0, r > 1e-4: mean from t35, t42, t44 and t46
knownU0MeanOfT46(r, c, u, t35, t42, t44, t46) ==
    FMul(FDiv(Frac(1, 9), FMul(r, r)),
         FSum(<<FProd(<<6 * FS, c, FMul(t46, t46), r>>), FNeg(FMul(u, t46)),
                FNeg(FDiv(t35, 9 * FS)), FMul(Frac(4, 9), FSub(t42, t44)), FS>>))
\* implLengthShortLimitKnownU0, r > 1e-4: mean from t35, t42 and t44
knownU0MeanOfT35(r, c, u, t35, t42, t44) == knownU0MeanOfT46(r, c, u, t35, t42, t44, knownU0T46(t35, t42, t44))
\* implLengthShortLimitKnownU0, r > 1e-4: mean from t1 and t34
knownU0MeanOfT34(r, c, u, t1, t34) == knownU0MeanOfT35(r, c, u, FMul(t34, t1), knownU0T42(c, u, t1, t34), FMul(c, t1))
\* implLengthShortLimitKnownU0: the mean of the gaussian in t = (ps)^(-3) for
\* r > 1e-4
knownU0MeanFull(r, c, u) == knownU0MeanOfT34(r, c, u, FDiv(FS, r), knownU0T34(r, c, u, knownU0T25(r, c, u)))
\* implLengthShortLimitKnownU0, short r limit: t7
knownU0ShortT7(c, u) == FSqrt(FMul(FMul(FAdd(u, 2 * FS), FAdd(u, 2 * FS)), FSum(<<FNeg(FMul(c, c)), u, 2 * FS>>)))
\* implLengthShortLimitKnownU0, short r limit: t14
knownU0ShortT14(c, u, t7) == FSub(FProd(<<24 * FS, FSqrt(3 * FS), t7>>), FProd(<<72 * FS, c, FSum(<<FMul(FNeg(Frac(8, 9)), FMul(c, c)), u, 2 * FS>>)>>))
\* implLengthShortLimitKnownU0, short r limit: t28
knownU0ShortT28(c, u) == FSum(<<FMul(FNeg(Frac(8, 3)), FMul(c, c)), u, 2 * FS>>)
\* implLengthShortLimitKnownU0, short r limit: mean from t4 = c^2, t7, t14,
\* t15, t16 and t28
knownU0ShortMeanOf(r, c, u, t4, t7, t14, t15, t16, t28) ==
    FDiv(FSum(<<FMul(FAdd(FProd(<<48 * FS, t4, c>>),
                          FMul(FSub(FMul((0 - 36) * FS, u), 72 * FS), c)), t16),
                FProd(<<36 * FS, FSum(<<FMul(FNeg(Frac(4, 3)), t4), u, 2 * FS>>), t28, t15>>),
                FNeg(FProd(<<72 * FS, FSqrt(3 * FS), t28, t7>>)),
                FMul(c, FSum(<<FProd(<<768 * FS, t4, t4>>),
                               FMul(FSub(FMul((0 - 1152) * FS, u), 2304 * FS), t4),
                               FMul(t15, t14), FProd(<<360 * FS, u, u>>),
                               FMul(1440 * FS, u), 1440 * FS>>))>>),
         FProd(<<t16, FMul(r, r), r, 486 * FS>>))
\* implLengthShortLimitKnownU0, short r limit: mean from t7, t14 and t15
knownU0ShortMeanOfT15(r, c, u, t7, t14, t15) == knownU0ShortMeanOf(r, c, u, FMul(c, c), t7, t14, t15, FMul(t15, t15), knownU0ShortT28(c, u))
\* implLengthShortLimitKnownU0, short r limit: mean from t7 and t14
knownU0ShortMeanOfT14(r, c, u, t7, t14) == knownU0ShortMeanOfT15(r, c, u, t7, t14, FCbrt(t14))
\* implLengthShortLimitKnownU0, short r limit: mean from t7
knownU0ShortMeanOfT7(r, c, u, t7) == knownU0ShortMeanOfT14(r, c, u, t7, knownU0ShortT14(c, u, t7))
\* implLengthShortLimitKnownU0: the mean in the short r limit
knownU0MeanShortR(r, c, u) == knownU0ShortMeanOfT7(r, c, u, knownU0ShortT7(c, u))
\* a mean that is used as the fit gave it
meanAsFitted(mean, r) == mean
\* implLengthShortLimitKnownU0: a non-finite or non-positive mean is replaced
meanOrPushedToR(mean, r) == IF ~IsFinite(mean) \/ FLe(mean, 0) THEN FDiv(FS, FProd(<<r, r, r>>)) ELSE mean
\* implLengthShortLimitKnownU0: mean
knownU0Mean(r, c, u) == meanOrPushedToR(IF FGt(r, Frac(1, 10000)) THEN knownU0MeanFull(r, c, u) ELSE knownU0MeanShortR(r, c, u), r)
\* implLengthShortLimitKnownU0: realStddev
knownU0RealStddev(r, c, u, mean) ==
    IF FLt(r, Frac(1, 10000))
    THEN FSqrt(FSum(<<
             FDiv(FMul(FSum(<<FProd(<<(0 - 54) * FS, r, c>>), FProd(<<12 * FS, u, u>>),
                              FMul(48 * FS, u), 48 * FS>>), FPow(mean, 8, 3)), 27 * FS),
             FDiv(FMul(FAdd(FMul(18 * FS, u), 36 * FS), FPow(mean, 7, 3)), 27 * FS),
             FDiv(FMul(FSum(<<FProd(<<8 * FS, u, u, u>>), FProd(<<48 * FS, u, u>>),
                              FMul(FAdd(FProd(<<(0 - 72) * FS, r, c>>), 96 * FS), u),
                              FNeg(FProd(<<144 * FS, r, c>>)), 64 * FS>>),
                       FProd(<<mean, mean, mean>>)), 27 * FS),
             FMul(mean, mean)>>))
    ELSE FSqrt(FDiv(FMul(3 * FS, FPow(mean, 11, 3)),
                    FSum(<<FMul(3 * FS, FPow(mean, 5, 3)),
                           FProd(<<6 * FS, FPow(mean, 7, 3), r, c>>),
                           FNeg(FMul(FAdd(FMul(2 * FS, u), 4 * FS), FMul(mean, mean)))>>)))
\* implLengthShortLimitKnownU0: a non-finite or non-positive stddev is replaced
stddevOrMean(stddev, mean) == IF ~IsFinite(stddev) \/ FLe(stddev, 0) THEN mean ELSE stddev
\* implLengthShortLimitKnownU0: the fitted normal, given its mean
knownU0FitOfMean(r, c, u, mean) == [mean |-> mean, stddev |-> stddevOrMean(FMul(2 * FS, knownU0RealStddev(r, c, u, mean)), mean)]
\* implLengthShortLimitKnownU0: the fitted normal in t
knownU0Fit(m, R, u0, uL) == knownU0FitOfMean(shortLimitR(m, R), knownU0CosTheta0L(R, u0, uL), Dot(u0, uL), knownU0Mean(shortLimitR(m, R), knownU0CosTheta0L(R, u0, uL), Dot(u0, uL)))
\* implLengthShortLimitKnownU0: the pdf in s from the pdf in t
knownU0Pdf(p, fit, ps, t) == FMul(FDiv(FMul(truncnormPdf(fit.mean, fit.stddev, 0, PInf, t), 3 * FS), FPowInt(ps, 4)), p)
\* implLengthShortLimitKnownU0 without a sampler
pdfLengthShortLimitKnownU0(m, R, u0, uL, s) ==
    IF shortLimitR(m, R) = 0 THEN 0
    ELSE knownU0Pdf(HalfSigmaSMu(m), knownU0Fit(m, R, u0, uL), FMul(HalfSigmaSMu(m), s),
                    FDiv(FS, FPowInt(FMul(HalfSigmaSMu(m), s), 3)))

\* implLengthShortLimitMargOverU0
safetyFac == 3 * FS
safetyWeight == Frac(3, 10)
uniformSpan == 2 * FS
\* meanTailCutoff (SINGLE_PRECISION)
meanTailCutoff == (0 - 10000) * FS
\* implLengthShortLimitMargOverU0_internal: cosTheta
margCosTheta(R, uL) == FClamp(FDiv(Dot(R, uL), Length(R)), 0 - FS, FS)
\* implLengthShortLimitMargOverU0_internal: the outcome of the fit
MargFit(uniformBackupWeight, t_mean, t_stddev) == [uniformBackupWeight |-> uniformBackupWeight, t_mean |-> t_mean, t_stddev |-> t_stddev]
\* implLengthShortLimitMargOverU0_internal: newMean
margNewMean(t_mean, t_mean2, t_var, fac, tmp) ==
    FDiv(FMul(t_mean, FSum(<<FMul(475 * FS, t_mean2), FNeg(FProd(<<868 * FS, fac, t_var>>)),
                             FMul(931 * FS, t_var), FNeg(FMul(19 * FS, tmp))>>)),
         FSum(<<FMul(350 * FS, t_mean2), FMul(FSub(686 * FS, FMul(588 * FS, fac)), t_var),
                FNeg(FMul(14 * FS, tmp))>>))
\* implLengthShortLimitMargOverU0_internal: newVar
margNewVar(t_mean2, t_var, fac, tmp) == FSum(<<FMul(t_var, FSub(Frac(7, 2), FMul(3 * FS, fac))), FMul(Frac(25, 14), t_mean2), FNeg(FDiv(tmp, 14 * FS))>>)
\* implLengthShortLimitMargOverU0_internal: the adjusted fit, or the original
\* one with more weight on the uniform backup
margFitChecked(t_mean, t_var, tmp, newMean, newVar) ==
    IF ~IsFinite(tmp) \/ ~IsFinite(newMean) \/ ~FGt(newVar, 0)
    THEN MargFit(Frac(3, 10), t_mean, FSqrt(t_var))
    ELSE MargFit(Frac(1, 100), newMean, FSqrt(newVar))
\* implLengthShortLimitMargOverU0_internal: mean and variance adjusted to the
\* safety factor fac, from tmp
margFitAdjusted(t_mean, t_var, fac, tmp) == margFitChecked(t_mean, t_var, tmp, margNewMean(t_mean, FMul(t_mean, t_mean), t_var, fac, tmp), margNewVar(FMul(t_mean, t_mean), t_var, fac, tmp))
\* implLengthShortLimitMargOverU0_internal: tmp2
margTmp2(t_mean, t_var, fac) ==
    FSum(<<FMul(1764 * FS, FMul(FMul(FSub(fac, Frac(7, 6)), t_var),
                                FMul(FSub(fac, Frac(7, 6)), t_var))),
           FProd(<<FSub(2450 * FS, FMul(2800 * FS, fac)), t_var, FMul(t_mean, t_mean)>>),
           FMul(625 * FS, FPowInt(t_mean, 4))>>)
\* implLengthShortLimitMargOverU0_internal: the fit from t_mean and t_var
margFitOfVar(t_mean, t_var, fac) ==
    IF ~FGt(t_var, 0) THEN MargFit(FS, t_mean, 0 - FS)
    ELSE IF fac = FS THEN MargFit(Frac(1, 100), t_mean, FSqrt(t_var))
    ELSE margFitAdjusted(t_mean, t_var, fac,
             IF FGt(margTmp2(t_mean, t_var, fac), 0) THEN FSqrt(margTmp2(t_mean, t_var, fac)) ELSE 0)
\* implLengthShortLimitMargOverU0_internal: t_var
margTVar(r, c, t_mean25) ==
    FDiv(FMul(125 * FS, FPowInt(t_mean25, 4)),
         FSum(<<FProd(<<135 * FS, r, r, t_mean25, t_mean25>>),
                FProd(<<90 * FS, r, FAdd(c, FS), t_mean25>>),
                FNeg(FProd(<<54 * FS, r, r>>)), FNeg(FMul(45 * FS, FAdd(c, 2 * FS)))>>))
\* implLengthShortLimitMargOverU0_internal: the fit from t_mean^(2/5)
margFitOfMean25(r, c, fac, t_mean25) ==
    IF FLe(t_mean25, 0) THEN MargFit(FS, 0 - FS, 0 - FS)
    ELSE margFitOfVar(FProd(<<t_mean25, t_mean25, FSqrt(t_mean25)>>), margTVar(r, c, t_mean25), fac)
\* implLengthShortLimitMargOverU0_internal: the fit from the discriminant D
margFitOfD(r, c, fac, D) ==
    IF FLe(D, 0) THEN MargFit(FS, 0 - FS, 0 - FS)
    ELSE margFitOfMean25(r, c, fac, FDiv(FAdd(FDiv(FAdd(c, FS), 3 * FS), FSqrt(D)), r))
\* implLengthShortLimitMargOverU0_internal: a mean far below 0 gives the
\* uniform backup all the weight
margTailCutoff(fit) ==
    IF FLt(FDiv(fit.t_mean, fit.t_stddev), meanTailCutoff)
    THEN MargFit(FS, fit.t_mean, fit.t_stddev) ELSE fit
\* implLengthShortLimitMargOverU0_internal: uniformBackupWeight, t_mean and
\* t_stddev for the safety factor fac
margFit(m, R, uL, fac) ==
    margTailCutoff(margFitOfD(shortLimitR(m, R), margCosTheta(R, uL), fac,
        FDiv(FSum(<<FProd(<<25 * FS, margCosTheta(R, uL), FAdd(margCosTheta(R, uL), FS)>>),
                    (0 - 25) * FS,
                    FNeg(FProd(<<30 * FS, shortLimitR(m, R), shortLimitR(m, R)>>))>>),
             225 * FS)))
\* implLengthShortLimitMargOverU0_internal: the pdf in s at ps and t
margInternalPdf(p, fit, ps, t) ==
    FMul(FAdd(FMul(fit.uniformBackupWeight,
                   IF FLt(ps, uniformSpan) THEN FDiv(FS, uniformSpan) ELSE 0),
              FMul(FDiv(FMul(FMul(FSub(FS, fit.uniformBackupWeight),
                                  IF fit.uniformBackupWeight = FS THEN 0
                                  ELSE truncnormPdf(fit.t_mean, fit.t_stddev, 0, PInf, t)),
                             5 * FS), 2 * FS),
                   FPow(ps, 0 - 7, 2))),
         p)
\* implLengthShortLimitMargOverU0_internal without a sampler
margInternalPdfAt(m, R, uL, s, fac) ==
    IF shortLimitR(m, R) = 0 THEN 0
    ELSE margInternalPdf(HalfSigmaSMu(m), margFit(m, R, uL, fac), FMul(s, HalfSigmaSMu(m)),
                         FPow(FMul(s, HalfSigmaSMu(m)), 0 - 5, 2))
\* implLengthShortLimitMargOverU0: the blend of the two fits
margBlend(pdfSafety, pdfOrig) == FAdd(FMul(safetyWeight, pdfSafety), FMul(FSub(FS, safetyWeight), pdfOrig))
\* implLengthShortLimitMargOverU0 without a sampler
pdfLengthShortLimitMargOverU0(m, R, uL, s) == margBlend(margInternalPdfAt(m, R, uL, s, safetyFac), margInternalPdfAt(m, R, uL, s, FS))

\* FwdScat::pdfLengthShortLimit; hasU0 is FALSE for u0 == NULL
pdfLengthShortLimit(m, R, hasU0, u0, uL, s) ==
    IF hasU0 THEN pdfLengthShortLimitKnownU0(m, R, u0, uL, s)
    ELSE pdfLengthShortLimitMargOverU0(m, R, uL, s)

\* w1 p1 + w2 p2 + w3 p3
lengthMixture(p1, p2, p3) == FSum(<<FMul(lengthSample_w1, p1), FMul(lengthSample_w2, p2), FMul(lengthSample_w3, p3)>>)
\* a LongLimit term that leaves out the pdf at the other displacement
longLimitWithoutOther(pdfAtR, pdfAtOther) == pdfAtR
\* the LongLimit term: the MIS average over the two displacements
longLimitAverage(pdfAtR, pdfAtOther) == FMul(FS \div 2, FAdd(pdfAtR, pdfAtOther))
\* FwdScat::pdfLengthDipole, given the tentative virtual source vs
pdfLengthDipoleOf(m, a, s, vs) ==
    IF vs.kind = "error" THEN ConfigError
    ELSE IF vs.kind = "fail" THEN Returned(0)
    ELSE Returned(lengthMixture(
             IF lengthSample_w1 = 0 THEN 0
             ELSE pdfLengthShortLimit(m, a.R, a.hasU0, a.u0, a.uL, s),
             IF lengthSample_w2 = 0 THEN 0
             ELSE longLimitAverage(pdfLengthLongLimit(m, a.R, a.uL, s),
                                   pdfLengthLongLimit(m, vs.R_virt, a.uL, s)),
             IF lengthSample_w3 = 0 THEN 0 ELSE pdfLengthAbsorption(m, s)))
\* FwdScat::pdfLengthDipole
pdfLengthDipole(m, a, s) == pdfLengthDipoleOf(m, a, s, getTentativeIndexMatchedVirtualSourceDisp(m, a.n0, a.nL, a.uL, a.R, NaN, a.tangentMode))

\* a selection that goes on with a pdf of 0
strategyNeverFailed(pdf) == FALSE
\* sampleLengthDipole: if (p1 == 0), if (p2 == 0), if (p3 == 0)
strategyFailed(pdf) == FEq(pdf, 0)
\* a ShortLimit term taken at the displacement that feeds the LongLimit term
shortLimitAtEffective(a, l) == l.R_effective
\* the displacement of the ShortLimit term: the real R
shortLimitDisplacement(a, l) == a.R
\* FwdScat::sampleLengthDipole, from the selection of a strategy on: the
\* selected strategy returned pdf with the length s
sampleLengthDipoleEnd(m, a, l, pdf, s) ==
    IF l.strategy # "none" /\ strategyFailed(pdf) THEN Returned(0)
    ELSE Returned(FDiv(FS, lengthMixture(
             IF l.strategy = "short" THEN pdf
             ELSE IF lengthSample_w1 = 0 THEN 0
             ELSE pdfLengthShortLimit(m, shortLimitDisplacement(a, l), a.hasU0, a.u0, a.uL, s),
             IF lengthSample_w2 = 0
             THEN (IF l.strategy = "long" THEN pdf ELSE 0)
             ELSE longLimitAverage(
                      IF l.strategy = "long" THEN pdf
                      ELSE pdfLengthLongLimit(m, l.R_effective, a.uL, s),
                      pdfLengthLongLimit(m, l.R_other, a.uL, s)),
             IF l.strategy = "absorption" THEN pdf
             ELSE IF lengthSample_w3 = 0 THEN 0 ELSE pdfLengthAbsorption(m, s))))

PdfLengths == {FS, 2 * FS}

(***************************************************************************)
(* Length sampling: the calls and their steps                              *)
(***************************************************************************)
\* values of sampler->next1D(), in [0, 1)
Uniforms == {0, FS \div 4, FS \div 2, Frac(99, 100)}
\* values of truncnorm(mean, stddev, 0, inf, sampler); they are values at
\* which the change of variable between t and ps is exact in this arithmetic
TruncnormKnownU0 == {0, FS, 8 * FS}
TruncnormMargOverU0 == {0, FS, 32 * FS}
\* the number of results 0 of truncnorm that one call is given
MaxRetries == 2
\* values of the erf and exp terms of the lambda cdf
CdfValues == {FS \div 4, FS, NaN}
\* the lambda cdf of sampleLengthLongLimit with A = sA^2.  At ps = 0 both erf
\* arguments are infinite and both expansions give 0; at an infinite ps the
\* arguments are 0 * inf for A = 0; elsewhere the erf and exp terms are
\* consumed as the value v
cdf(A, ps, v) ==
    IF ps = 0 THEN 0
    ELSE IF ~IsFinite(ps) THEN (IF A = 0 THEN NaN ELSE FS)
    ELSE FClamp(v, 0, FS)
\* size_t max_iter = 1000
max_iter == 1000
\* roots of the target for p = 1
SolverRoots == {Frac(61, 1000), FS \div 2}
\* boost::math::tools::toms748_solve(target, lo, hi, tolerance, max_iter):
\* the intervals in [lo, hi] that it returns, after at most max_iter
\* evaluations, when it does not throw
toms748_solve(lo, hi, maxIter) ==
    {[first |-> x, second |-> x, iterations |-> i] :
        x \in {r \in SolverRoots : lo <= r /\ r <= hi}, i \in {1, maxIter}}

\* the geometric arguments of the length samplers
LengthGeometries ==
    {Geometry(ez, Vec(0, 0, 0 - FS), ez, Vec(0, 0, FS), Vec(FS, 0, 0)),
     Geometry(ez, Vec(0, 0, 0 - FS), ez, Vec(800, 0, 600), Vec(FS, 0, 0)),
     Geometry(ez, Vec(0, 0, 0 - FS), ez, Vec(0, 0, FS), ZeroVec),
     Geometry(ez, Vec(0, 0, 0 - FS), ez, Vec(800, 0, 600), Vec(0, 0, 0 - FS))}
\* the geometric arguments of sampleLengthShortLimit: those, and one through
\* a slab for which the fit of the mean comes out negative
ShortLimitGeometries ==
    LengthGeometries
        \cup {Geometry(ez, Vec(0, 0, 0 - FS), Vec(0, 0, 0 - FS), Vec(600, 0, 0 - 800), Vec(0 - 500, 0, 0))}
LengthTangentModes == {"EFrisvadEtAl", "EUnmodifiedIncoming", "EUnknownTangentMode"}
\* the value of the caller's s before the call
CallerLengths == {7 * FS}
\* a non-absorbing and an absorbing medium
SampleMedia == {Medium(FS, 0, FS, FS), Medium(FS, 50 * FS, FS, FS)}
\* the arguments of a length routine; hasU0 is FALSE for u0 == NULL
LengthArgs(g, hasU0, tangentMode, s) ==
    [n0 |-> g.n0, u0 |-> IF hasU0 THEN g.u0 ELSE Unwritten, hasU0 |-> hasU0,
     nL |-> g.nL, uL |-> g.uL, R |-> g.R, tangentMode |-> tangentMode, s |-> s]

\* a sampling routine that leaves s in a variable that all queries share
StrategyReturnsShared(q, l, pdf, s) ==
    /\ loc' = [loc EXCEPT ![q] = [l EXCEPT !.pdf = pdf]]
    /\ sOut' = [r \in Queries |-> s]
    /\ ret' = [ret EXCEPT ![q] =
           IF op[q] = "sampleLengthDipole"
           THEN sampleLengthDipoleEnd(medium, arg[q], l, pdf, s)
           ELSE Returned(pdf)]
    /\ pc' = [pc EXCEPT ![q] = "done"]
\* a sampling routine returns the pdf and leaves s in the caller's variable;
\* when the caller is sampleLengthDipole, the rest of that routine follows
StrategyReturns(q, l, pdf, s) ==
    /\ loc' = [loc EXCEPT ![q] = [l EXCEPT !.pdf = pdf]]
    /\ sOut' = [sOut EXCEPT ![q] = s]
    /\ ret' = [ret EXCEPT ![q] =
           IF op[q] = "sampleLengthDipole"
           THEN sampleLengthDipoleEnd(medium, arg[q], l, pdf, s)
           ELSE Returned(pdf)]
    /\ pc' = [pc EXCEPT ![q] = "done"]

\* FwdScat::sampleLengthDipole up to the tentative virtual source vs
SampleLengthDipoleEnter(q, vs) ==
    /\ loc' = [loc EXCEPT ![q] = [NoLoc EXCEPT !.R_virt = vs.R_virt]]
    /\ ret' = [ret EXCEPT ![q] =
           IF vs.kind = "error" THEN ConfigError
           ELSE IF vs.kind = "fail" THEN Returned(0) ELSE NoRet]
    /\ pc' = [pc EXCEPT ![q] = IF vs.kind = "ok" THEN "pickDisplacement" ELSE "done"]
\* a call of sampleLengthDipole by query q, with arguments from the given sets
SampleLengthDipoleCallWith(q, geometries, hasU0s, tangentModes) ==
    /\ pc[q] = "idle"
    /\ \E g \in geometries, hasU0 \in hasU0s, tm \in tangentModes,
          s \in CallerLengths :
          /\ arg' = [arg EXCEPT ![q] = LengthArgs(g, hasU0, tm, s)]
          /\ sOut' = [sOut EXCEPT ![q] = s]
          /\ SampleLengthDipoleEnter(q,
                 getTentativeIndexMatchedVirtualSourceDisp(medium, g.n0, g.nL, g.uL, g.R, NaN, tm))
    /\ op' = [op EXCEPT ![q] = "sampleLengthDipole"]
    /\ UNCHANGED <<medium, debug, draws>>
SampleLengthDipoleCall(q) == SampleLengthDipoleCallWith(q, LengthGeometries, BOOLEAN, LengthTangentModes)
\* sampleLengthDipole: if (sampler->next1D() < 0.5)
PickDisplacement(q) ==
    /\ pc[q] = "pickDisplacement"
    /\ \E u \in Uniforms :
          loc' = [loc EXCEPT ![q].R_effective = IF FLt(u, FS \div 2) THEN arg[q].R ELSE loc[q].R_virt,
                             ![q].R_other = IF FLt(u, FS \div 2) THEN loc[q].R_virt ELSE arg[q].R]
    /\ draws' = [draws EXCEPT ![q] = @ + 1]
    /\ pc' = [pc EXCEPT ![q] = "pickStrategy"]
    /\ UNCHANGED <<medium, debug, op, arg, ret, sOut>>
\* a selection that compares u with every weight by itself
selectedStrategyByWeight(u) ==
    IF FLt(u, lengthSample_w1) THEN "short"
    ELSE IF FLt(u, lengthSample_w2) THEN "long"
    ELSE IF FLt(u, FSum(<<lengthSample_w1, lengthSample_w2, lengthSample_w3>>)) THEN "absorption"
    ELSE "none"
\* sampleLengthDipole: the strategy that the uniform variate u selects
selectedStrategy(u) ==
    IF FLt(u, lengthSample_w1) THEN "short"
    ELSE IF FLt(u, FAdd(lengthSample_w1, lengthSample_w2)) THEN "long"
    ELSE IF FLt(u, FSum(<<lengthSample_w1, lengthSample_w2, lengthSample_w3>>)) THEN "absorption"
    ELSE "none"
\* the first step of each strategy
strategyEntry(strategy) ==
    CASE strategy = "short" -> "shortLimit"
      [] strategy = "long" -> "longLimit"
      [] strategy = "absorption" -> "absorption"
\* sampleLengthDipole: const Float u = sampler->next1D() and the selection
PickStrategy(q) ==
    /\ pc[q] = "pickStrategy"
    /\ \E u \in Uniforms :
          IF selectedStrategy(u) = "none"
          THEN StrategyReturns(q, [loc[q] EXCEPT !.uStrategy = u], 0 - FS, sOut[q])
          ELSE /\ loc' = [loc EXCEPT ![q].strategy = selectedStrategy(u), ![q].uStrategy = u]
               /\ pc' = [pc EXCEPT ![q] = strategyEntry(selectedStrategy(u))]
               /\ UNCHANGED <<ret, sOut>>
    /\ draws' = [draws EXCEPT ![q] = @ + 1]
    /\ UNCHANGED <<medium, debug, op, arg>>

\* a call of one of the three strategies by query q
StrategyCall(q, name, entry, strategy, geometries) ==
    /\ pc[q] = "idle"
    /\ \E g \in geometries, hasU0 \in BOOLEAN, s \in CallerLengths :
          /\ arg' = [arg EXCEPT ![q] = LengthArgs(g, hasU0, "EUnmodifiedIncoming", s)]
          /\ sOut' = [sOut EXCEPT ![q] = s]
          /\ loc' = [loc EXCEPT ![q] = [NoLoc EXCEPT !.R_effective = g.R, !.strategy = strategy]]
    /\ op' = [op EXCEPT ![q] = name]
    /\ pc' = [pc EXCEPT ![q] = entry]
    /\ UNCHANGED <<medium, debug, draws, ret>>
SampleLengthShortLimitCall(q) == StrategyCall(q, "sampleLengthShortLimit", "shortLimit", "short", ShortLimitGeometries)
SampleLengthLongLimitCall(q) == StrategyCall(q, "sampleLengthLongLimit", "longLimit", "long", LengthGeometries)
SampleLengthAbsorptionCall(q) == StrategyCall(q, "sampleLengthAbsorption", "absorption", "absorption", LengthGeometries)

\* sampleLengthAbsorption: s and pdf from the uniform variate
AbsorptionSampled(q, s) == StrategyReturns(q, loc[q], FMul(medium.sigma_a, FExp(FNeg(FMul(medium.sigma_a, s)))), s)
\* a sampleLengthAbsorption that draws again when the uniform variate is 0
AbsorptionStepRejecting(q) ==
    /\ pc[q] = "absorption"
    /\ IF absorptionDisabled(medium)
       THEN /\ StrategyReturns(q, loc[q], 0, sOut[q])
            /\ UNCHANGED draws
       ELSE /\ \E u \in Uniforms :
                  IF u = 0
                  THEN /\ loc[q].retries < MaxRetries
                       /\ loc' = [loc EXCEPT ![q].retries = @ + 1]
                       /\ UNCHANGED <<pc, ret, sOut>>
                  ELSE AbsorptionSampled(q, FDiv(FNeg(FLog(u)), medium.sigma_a))
            /\ draws' = [draws EXCEPT ![q] = @ + 1]
    /\ UNCHANGED <<medium, debug, op, arg>>
\* FwdScat::sampleLengthAbsorption
AbsorptionStep(q) ==
    /\ pc[q] = "absorption"
    /\ IF absorptionDisabled(medium)
       THEN /\ StrategyReturns(q, loc[q], 0, sOut[q])
            /\ UNCHANGED draws
       ELSE /\ \E u \in Uniforms : AbsorptionSampled(q, FDiv(FNeg(FLog(u)), medium.sigma_a))
            /\ draws' = [draws EXCEPT ![q] = @ + 1]
    /\ UNCHANGED <<medium, debug, op, arg>>

\* implLengthShortLimitKnownU0 with a sampler, up to the retry loop
ShortLimitKnownU0(q) ==
    /\ pc[q] = "shortLimit"
    /\ arg[q].hasU0
    /\ IF shortLimitR(medium, shortLimitDisplacement(arg[q], loc[q])) = 0
       THEN StrategyReturns(q, loc[q], 0, 0)
       ELSE /\ loc' = [loc EXCEPT ![q].fit = knownU0Fit(medium, shortLimitDisplacement(arg[q], loc[q]), arg[q].u0, arg[q].uL)]
            /\ pc' = [pc EXCEPT ![q] = "truncnormKnownU0"]
            /\ UNCHANGED <<ret, sOut>>
    /\ UNCHANGED <<medium, debug, op, arg, draws>>
\* implLengthShortLimitKnownU0 after the loop: ps = pow(t, -1/3), s = ps / p
KnownU0Sampled(q, t, ps) == StrategyReturns(q, loc[q], knownU0Pdf(HalfSigmaSMu(medium), loc[q].fit, ps, t), FDiv(ps, HalfSigmaSMu(medium)))
\* implLengthShortLimitKnownU0: do { t = truncnorm(...); } while (t == 0);
KnownU0Truncnorm(q) ==
    /\ pc[q] = "truncnormKnownU0"
    /\ \E t \in TruncnormKnownU0 :
          IF FEq(t, 0)
          THEN /\ loc[q].retries < MaxRetries
               /\ loc' = [loc EXCEPT ![q].retries = @ + 1]
               /\ UNCHANGED <<pc, ret, sOut>>
          ELSE KnownU0Sampled(q, t, FPow(t, 0 - 1, 3))
    /\ draws' = [draws EXCEPT ![q] = @ + 1]
    /\ UNCHANGED <<medium, debug, op, arg>>

\* implLengthShortLimitMargOverU0_internal with a sampler, up to the choice
\* between the uniform backup and the fit
MargEnter(q, fac) ==
    IF shortLimitR(medium, shortLimitDisplacement(arg[q], loc[q])) = 0
    THEN StrategyReturns(q, [loc[q] EXCEPT !.fac = fac], margBlend(0, 0), 0)
    ELSE /\ loc' = [loc EXCEPT ![q].fac = fac,
                               ![q].fit = margFit(medium, shortLimitDisplacement(arg[q], loc[q]), arg[q].uL, fac)]
         /\ pc' = [pc EXCEPT ![q] = "margBackup"]
         /\ UNCHANGED <<ret, sOut>>
\* implLengthShortLimitMargOverU0: the fit that is sampled for the uniform
\* variate u, by the factor on its variance:
\* if (sampler->next1D() > safetyWeight) the safety fit, else the original
sampledFac(u) == IF FGt(u, safetyWeight) THEN safetyFac ELSE FS
\* implLengthShortLimitMargOverU0: if (sampler->next1D() > safetyWeight)
ShortLimitMargPickFit(q) ==
    /\ pc[q] = "shortLimit"
    /\ ~arg[q].hasU0
    /\ \E u \in Uniforms : MargEnter(q, sampledFac(u))
    /\ draws' = [draws EXCEPT ![q] = @ + 1]
    /\ UNCHANGED <<medium, debug, op, arg>>
\* implLengthShortLimitMargOverU0_internal:
\* if (uniformBackupWeight == 1 || sampler->next1D() < uniformBackupWeight)
MargBackupChoice(q) ==
    /\ pc[q] = "margBackup"
    /\ \E u \in (IF loc[q].fit.uniformBackupWeight = FS THEN {0} ELSE Uniforms) :
          pc' = [pc EXCEPT ![q] =
                    IF loc[q].fit.uniformBackupWeight = FS \/ FLt(u, loc[q].fit.uniformBackupWeight)
                    THEN "margUniform" ELSE "truncnormMarg"]
    /\ draws' = [draws EXCEPT ![q] = IF loc[q].fit.uniformBackupWeight = FS THEN @ ELSE @ + 1]
    /\ UNCHANGED <<medium, debug, op, arg, ret, sOut, loc>>
\* implLengthShortLimitMargOverU0: the pdf of the sampled fit and the pdf of
\* the other fit, blended
margSampledBlend(fac, pdfSampled, pdfOther) == IF fac = safetyFac THEN margBlend(pdfSampled, pdfOther) ELSE margBlend(pdfOther, pdfSampled)
\* implLengthShortLimitMargOverU0 after the sampling call: the call without a
\* sampler for the other fit, at the sampled s
MargSampledAt(q, ps, t, s) ==
    StrategyReturns(q, loc[q],
        margSampledBlend(loc[q].fac,
            margInternalPdf(HalfSigmaSMu(medium), loc[q].fit, ps, t),
            margInternalPdfAt(medium, shortLimitDisplacement(arg[q], loc[q]), arg[q].uL, s,
                              IF loc[q].fac = safetyFac THEN FS ELSE safetyFac)),
        s)
\* implLengthShortLimitMargOverU0_internal: s = ps / p
MargSampled(q, ps, t) == MargSampledAt(q, ps, t, FDiv(ps, HalfSigmaSMu(medium)))
\* implLengthShortLimitMargOverU0_internal: simple uniform sampling
MargUniformDraw(q) ==
    /\ pc[q] = "margUniform"
    /\ \E u \in Uniforms : MargSampled(q, FMul(uniformSpan, u), FPow(FMul(uniformSpan, u), 0 - 5, 2))
    /\ draws' = [draws EXCEPT ![q] = @ + 1]
    /\ UNCHANGED <<medium, debug, op, arg>>
\* implLengthShortLimitMargOverU0_internal:
\* do { t = truncnorm(...); } while (t == 0); ps = pow(t, -2/5)
MargTruncnorm(q) ==
    /\ pc[q] = "truncnormMarg"
    /\ \E t \in TruncnormMargOverU0 :
          IF FEq(t, 0)
          THEN /\ loc[q].retries < MaxRetries
               /\ loc' = [loc EXCEPT ![q].retries = @ + 1]
               /\ UNCHANGED <<pc, ret, sOut>>
          ELSE MargSampled(q, FPow(t, 0 - 2, 5), t)
    /\ draws' = [draws EXCEPT ![q] = @ + 1]
    /\ UNCHANGED <<medium, debug, op, arg>>

\* sampleLengthLongLimit: the largest upper bound that is still widened,
\* 1e4*1000/A, taken as 1e4 * (1000/A) to stay in the range of the arithmetic
bracketCap(A) == FMul(10000 * FS, FDiv(1000 * FS, A))
\* target(hi) = cdf(hi) - u
targetHi(l) == FSub(l.cdfHi, l.u)
\* a loop condition without the bound on hi
bracketContinuesUnbounded(l) == FLt(targetHi(l), 0)
\* sampleLengthLongLimit: while (target(hi) < 0 && hi < 1e4*1000/A)
bracketContinues(l) == FLt(targetHi(l), 0) /\ FLt(l.hi, bracketCap(l.A))
\* sampleLengthLongLimit from double u = sampler->next1D() to the loop
LongLimitBracketStart(q, l) ==
    IF ~IsFinite(FSub(cdf(l.A, 0, NaN), l.u)) \/ FGt(FSub(cdf(l.A, 0, NaN), l.u), 0)
    THEN StrategyReturns(q, l, 0, sOut[q])
    ELSE IF ~IsFinite(targetHi(l))
    THEN StrategyReturns(q, l, 0, sOut[q])
    ELSE /\ loc' = [loc EXCEPT ![q] = l]
         /\ pc' = [pc EXCEPT ![q] = "bracket"]
         /\ UNCHANGED <<ret, sOut>>
\* sampleLengthLongLimit up to the loop, for p and beta
LongLimitBranch(q, p, beta, u, v) ==
    IF p = 0
    THEN /\ StrategyReturns(q, loc[q], 0, sOut[q])
         /\ UNCHANGED draws
    ELSE IF FLe(beta, 0)
    THEN /\ pc' = [pc EXCEPT ![q] = "absorption"]
         /\ UNCHANGED <<draws, loc, ret, sOut>>
    ELSE /\ \E A \in {FDiv(medium.sigma_a, p)} : \E hi \in {FDiv(1000 * FS, A)} :
                LongLimitBracketStart(q,
                    [loc[q] EXCEPT !.A = A, !.u = u, !.hi = hi, !.cdfHi = cdf(A, hi, v)])
         /\ draws' = [draws EXCEPT ![q] = @ + 1]
\* FwdScat::sampleLengthLongLimit up to the loop
LongLimitEnter(q) ==
    /\ pc[q] = "longLimit"
    /\ \E u \in Uniforms, v \in CdfValues, p \in {HalfSigmaSMu(medium)} :
          \E beta \in {longLimitBeta(p, loc[q].R_effective, arg[q].uL)} :
             LongLimitBranch(q, p, beta, u, v)
    /\ UNCHANGED <<medium, debug, op, arg>>
\* sampleLengthLongLimit: hi *= 3
BracketExpand(q) ==
    /\ pc[q] = "bracket"
    /\ bracketContinues(loc[q])
    /\ \E v \in CdfValues :
          loc' = [loc EXCEPT ![q].hi = FMul(loc[q].hi, 3 * FS),
                             ![q].cdfHi = cdf(loc[q].A, FMul(loc[q].hi, 3 * FS), v),
                             ![q].expansions = @ + 1]
    /\ UNCHANGED <<medium, debug, op, arg, pc, ret, sOut, draws>>
\* sampleLengthLongLimit: the check after the loop
BracketEnd(q) ==
    /\ pc[q] = "bracket"
    /\ ~bracketContinues(loc[q])
    /\ IF ~IsFinite(targetHi(loc[q])) \/ FLt(targetHi(loc[q]), 0)
       THEN StrategyReturns(q, loc[q], 0, sOut[q])
       ELSE /\ pc' = [pc EXCEPT ![q] = "solve"]
            /\ UNCHANGED <<loc, ret, sOut>>
    /\ UNCHANGED <<medium, debug, op, arg, draws>>
\* sampleLengthLongLimit: s = s_p1 / p and the return
LongLimitSolved(q, l, s) ==
    IF ~IsFinite(s) THEN StrategyReturns(q, l, 0, s)
    ELSE \E pdf \in {pdfLengthLongLimit(medium, l.R_effective, arg[q].uL, s)} :
            StrategyReturns(q, l, pdf, s)
\* sampleLengthLongLimit: the root search inside try { } catch
Solve(q) ==
    /\ pc[q] = "solve"
    /\ \/ StrategyReturns(q, [loc[q] EXCEPT !.iterations = 1, !.threw = TRUE], 0, sOut[q])
       \/ \E o \in toms748_solve(0, loc[q].hi, max_iter) :
             \E s \in {FDiv(FMul(FS \div 2, FAdd(o.first, o.second)), HalfSigmaSMu(medium))} :
                LongLimitSolved(q, [loc[q] EXCEPT !.iterations = o.iterations], s)
    /\ UNCHANGED <<medium, debug, op, arg, draws>>

\* a call of pdfLengthAbsorption or pdfLengthDipole by query q, with
\* arguments from the given sets
PdfLengthCallWith(q, geometries, hasU0s, tangentModes) ==
    /\ pc[q] = "idle"
    /\ \E g \in geometries, hasU0 \in hasU0s, tm \in tangentModes,
          s \in PdfLengths, name \in {"pdfLengthAbsorption", "pdfLengthDipole"} :
          /\ arg' = [arg EXCEPT ![q] = LengthArgs(g, hasU0, tm, s)]
          /\ sOut' = [sOut EXCEPT ![q] = s]
          /\ op' = [op EXCEPT ![q] = name]
          /\ ret' = [ret EXCEPT ![q] =
                 IF name = "pdfLengthAbsorption" THEN Returned(pdfLengthAbsorption(medium, s))
                 ELSE pdfLengthDipole(medium, LengthArgs(g, hasU0, tm, s), s)]
    /\ pc' = [pc EXCEPT ![q] = "done"]
    /\ UNCHANGED <<medium, debug, draws, loc>>
PdfLengthCall(q) == PdfLengthCallWith(q, LengthGeometries, BOOLEAN, LengthTangentModes)

(***************************************************************************)
(* Direction sampling.  The routines are followed draw by draw; the values *)
(* of the densities, which are products of exp, erf and truncnormPdf terms *)
(* of the collaborators, and the sampled directions are consumed as values *)
(***************************************************************************)
directionSampler_origWeight == FS \div 2
directionSampler_dipoleHemiWeight == Frac(5, 100)
\* values of the pdf of a direction routine
DirPdfValues == {0, FS \div 2, FS}
\* values of the pdf of the routine that was not sampled
DirOtherPdfValues == {0, FS}
\* sampled directions u0: on either side of a plane z = 0 and in it
DirSamples == {Vec(0, 0, 0 - FS), Vec(600, 0, 0 - 800), Vec(FS, 0, 0), Vec(0, 0, FS), Vec(600, 0, 800)}
DirLengths == {FS}
DirectionVariants == {"sampleDirectionBoundaryAwareMonopole_orig", "sampleDirectionBoundaryAwareMonopole_bis", "sampleDirectionBoundaryAwareMonopole_BRDF"}
\* what the rest of a direction routine consumes: the direction u0, its pdf,
\* the pdf from the pdf-only routine, the pdf of the other parameterization
\* and the pdf of the monopole at the other source
DirOracles == [u0 : DirSamples, pdf : DirPdfValues, pdfCheck : DirPdfValues, pOther : DirOtherPdfValues, pOtherSource : DirOtherPdfValues]
\* a routine that returns on an error before it has a direction
DirNoSample == [u0 |-> Unwritten, pdf |-> 0, pdfCheck |-> NaN, pOther |-> NaN, pOtherSource |-> NaN]

\* getTentativeIndexMatchedVirtualSourceDisp: ratio
realSourceRatio(v, uL, R, R_virt) == FExp(FSub(FMul(v.E, Dot(VSub(R, R_virt), uL)), FMul(v.F, FSub(LengthSquared(R), LengthSquared(R_virt)))))
\* a weight without the test on an infinite ratio
realSourceWeightUnclamped(ratio) == FDiv(ratio, FAdd(ratio, FS))
\* getTentativeIndexMatchedVirtualSourceDisp: realSourceWeight
realSourceWeightOf(ratio) == IF IsInf(FAdd(ratio, FS)) THEN FS ELSE FDiv(ratio, FAdd(ratio, FS))
\* getTentativeIndexMatchedVirtualSourceDisp: *optional_realSourceRelativeWeight
realSourceWeight(m, uL, R, R_virt, s) == realSourceWeightOf(realSourceRatio(calcValues(m, s), uL, R, R_virt))
\* _pdfHemisphere
pdfHemisphere(n_in, d_in) == FMul(FDiv(FS, PiF), FAbs(Dot(d_in, n_in)))

\* a sample routine that never re-evaluates its pdf
pdfRecheckedNever(dbg, pdf) == FALSE
\* the #ifdef MTS_FWDSCAT_DEBUG block of a sample routine is compiled in and
\* is reached: a pdf of 0 has returned before it
pdfRechecked(dbg, pdf) == dbg /\ ~FEq(pdf, 0)
\* if (math::abs(pdf-pdfCheck)/pdf > 1e-3) Log(EWarn, "Inconsistent pdfs ...
inconsistentPdfs(pdf, pdfCheck) == FGt(FDiv(FAbs(FSub(pdf, pdfCheck)), pdf), Frac(1, 1000))
\* the end of sampleDirectionBoundaryAwareMonopole_orig, _bis and _BRDF
DirRecheck(l, dbg, routine, o) ==
    IF pdfRechecked(dbg, o.pdf)
    THEN [l EXCEPT !.u0 = o.u0, !.checked = @ \cup {routine}, !.pdfCheck = o.pdfCheck,
                   !.warned = inconsistentPdfs(o.pdf, o.pdfCheck)]
    ELSE [l EXCEPT !.u0 = o.u0]
\* a direction call returns the pdf
DirDone(q, l, pdf) ==
    /\ loc' = [loc EXCEPT ![q] = l]
    /\ ret' = [ret EXCEPT ![q] = Returned(pdf)]
    /\ pc' = [pc EXCEPT ![q] = "done"]
\* sampleDirectionBoundaryAwareMonopole after the sampled routine returned
monopolePdf(routine, pdf, pOther) ==
    IF routine = "sampleDirectionBoundaryAwareMonopole_BRDF" THEN pdf
    ELSE IF FEq(pdf, 0) THEN 0
    ELSE FAdd(FMul(IF routine = "sampleDirectionBoundaryAwareMonopole_orig" THEN pdf ELSE pOther,
                   directionSampler_origWeight),
              FMul(IF routine = "sampleDirectionBoundaryAwareMonopole_orig" THEN pOther ELSE pdf,
                   FSub(FS, directionSampler_origWeight)))
\* sampleDirectionDipole and pdfDirectionDipole: the return value
dipoleDirectionPdf(w, pReal, pVirt, pHemi) ==
    FAdd(FMul(FSub(FS, directionSampler_dipoleHemiWeight),
              FAdd(FMul(w, pReal), FMul(FSub(FS, w), pVirt))),
         FMul(directionSampler_dipoleHemiWeight, pHemi))
\* an evaluation of the density of the boundary-aware monopole, by
\* sampleDirectionBoundaryAwareMonopole for the direction that it sampled or
\* by pdfDirectionBoundaryAwareMonopole: the arguments u0, n0 and R (uL, s and
\* useEffectiveBRDF are those of the caller) and the value
monopoleEval(u0, n0, R, pdf) == [u0 |-> u0, n0 |-> n0, R |-> R, pdf |-> pdf]
\* sampleDirectionDipole after the direction u0 was sampled, with the
\* evaluations for the real and for the virtual source
DirDipoleEnd(q, l, u0, eReal, eVirt) == DirDone(q, [l EXCEPT !.u0 = u0, !.evals = {eReal, eVirt}], dipoleDirectionPdf(l.realSourceWeight, eReal.pdf, eVirt.pdf, pdfHemisphere(arg[q].n0, u0)))
\* sampleDirectionDipole: the evaluation for the real source by
\* pdfDirectionBoundaryAwareMonopole(u0, n0, uL, R, s, useEffectiveBRDF)
realSourceEval(q, u0, pdf) == monopoleEval(u0, arg[q].n0, arg[q].R, pdf)
\* sampleDirectionDipole: n0_virt = n0 - 2*dot(n0_effective, n0) * n0_effective
\* and the evaluation for the virtual source at the direction u0_virt
virtualSourceEval(q, l, u0_virt, pdf) == monopoleEval(u0_virt, Mirror(arg[q].n0, l.n0_effective), l.R_virt, pdf)
\* a virtual branch that returns the sampled u0_virt as it is
DirMonopoleReturnedUnmirrored(q, l, pMono, o) ==
    IF op[q] = "sampleDirectionBoundaryAwareMonopole" \/ FEq(pMono, 0)
    THEN DirDone(q, l, pMono)
    ELSE IF l.branch = "real"
    THEN DirDipoleEnd(q, l, l.u0, realSourceEval(q, l.u0, pMono),
                      virtualSourceEval(q, l, Mirror(l.u0, l.n0_effective), o.pOtherSource))
    ELSE DirDipoleEnd(q, l, l.u0,
                      realSourceEval(q, l.u0, o.pOtherSource),
                      virtualSourceEval(q, l, l.u0, pMono))
\* sampleDirectionDipole after sampleDirectionBoundaryAwareMonopole returned
\* pMono: the sample of the virtual source is mirrored back
DirMonopoleReturned(q, l, pMono, o) ==
    IF op[q] = "sampleDirectionBoundaryAwareMonopole" \/ FEq(pMono, 0)
    THEN DirDone(q, l, pMono)
    ELSE IF l.branch = "real"
    THEN DirDipoleEnd(q, l, l.u0, realSourceEval(q, l.u0, pMono),
                      virtualSourceEval(q, l, Mirror(l.u0, l.n0_effective), o.pOtherSource))
    ELSE DirDipoleEnd(q, l, Mirror(l.u0, l.n0_effective),
                      realSourceEval(q, Mirror(l.u0, l.n0_effective), o.pOtherSource),
                      virtualSourceEval(q, l, l.u0, pMono))
\* the caller of a routine _orig, _bis or _BRDF goes on
DirVariantReturned(q, l, routine, o) ==
    IF op[q] = routine THEN DirDone(q, l, o.pdf)
    ELSE DirMonopoleReturned(q, l, monopolePdf(routine, o.pdf, o.pOther), o)
\* a routine _orig, _bis or _BRDF returns o.pdf
DirLeafReturns(q, routine, o) == DirVariantReturned(q, DirRecheck(loc[q], debug, routine, o), routine, o)

\* the normal n0 that the routine _orig, _bis or _BRDF of query q is called
\* with: sampleDirectionDipole passes n0_virt for the virtual source
DirLeafNormal(q) ==
    IF op[q] = "sampleDirectionDipole" /\ loc[q].branch = "virt"
    THEN Mirror(arg[q].n0, loc[q].n0_effective) ELSE arg[q].n0
\* what a routine can give for the normal n: _bis and _BRDF construct u0 from
\* a cosTheta in [-1, 0] about n; _orig returns 0 for a u0 with
\* dot(u0, n0) >= 0, and so does its pdf, which is pOther for _bis
DirAdmissible(routine, n, o) ==
    IF routine = "sampleDirectionBoundaryAwareMonopole_orig"
    THEN FLt(Dot(o.u0, n), 0) \/ o.pdf = 0
    ELSE /\ FLe(Dot(o.u0, n), 0)
         /\ (routine = "sampleDirectionBoundaryAwareMonopole_bis" /\ FGe(Dot(o.u0, n), 0)) => o.pOther = 0
DirLeafOracles(q, routine) == {o \in DirOracles : DirAdmissible(routine, DirLeafNormal(q), o)}
\* _sampleHemisphere: the cosine hemisphere about n_in, its z negated
DirHemisphereSamples(n_in) == {d \in DirSamples : FLe(Dot(d, n_in), 0)}
\* the arguments of a direction routine
DirectionArgs(g, s, tangentMode, useEffectiveBRDF) ==
    [n0 |-> g.n0, nL |-> g.nL, uL |-> g.uL, R |-> g.R, s |-> s,
     tangentMode |-> tangentMode, useEffectiveBRDF |-> useEffectiveBRDF]
\* the first step of each direction routine
directionEntry(name) ==
    CASE name = "sampleDirectionDipole" -> "dirDipole"
      [] name = "sampleDirectionBoundaryAwareMonopole" -> "dirMonopole"
      [] name = "sampleDirectionBoundaryAwareMonopole_orig" -> "dirOrig"
      [] name = "sampleDirectionBoundaryAwareMonopole_bis" -> "dirBis"
      [] name = "sampleDirectionBoundaryAwareMonopole_BRDF" -> "dirBRDF"
\* a call of a direction routine by query q
DirectionCall(q, names, geometries, tangentModes, brdfs) ==
    /\ pc[q] = "idle"
    /\ \E name \in names, g \in geometries, s \in DirLengths, tm \in tangentModes, brdf \in brdfs :
          /\ arg' = [arg EXCEPT ![q] = DirectionArgs(g, s, tm, brdf)]
          /\ op' = [op EXCEPT ![q] = name]
          /\ pc' = [pc EXCEPT ![q] = directionEntry(name)]
    /\ UNCHANGED <<medium, debug, ret, sOut, draws, loc>>
\* the configurations of sampleDirectionDipole: those of the length
\* routines, and one whose exit normal is not the entry normal
DirGeometries == LengthGeometries \cup {Geometry(ez, Vec(0, 0, 0 - FS), ex, Vec(800, 0, 600), Vec(FS, 0, 0))}
DirTangentModes == LengthTangentModes \cup {"EUnmodifiedOutgoing"}
SampleDirectionDipoleCall(q) == DirectionCall(q, {"sampleDirectionDipole"}, DirGeometries, DirTangentModes, BOOLEAN)
SampleDirectionMonopoleCall(q) == DirectionCall(q, {"sampleDirectionBoundaryAwareMonopole"}, LengthGeometries, {"EUnmodifiedIncoming"}, BOOLEAN)
SampleDirectionVariantCall(q) == DirectionCall(q, DirectionVariants, LengthGeometries, {"EUnmodifiedIncoming"}, {FALSE})

\* sampleDirectionDipole: the branch that u selects
dipoleBranch(u, w) ==
    IF FLe(u, FMul(FSub(FS, directionSampler_dipoleHemiWeight), w)) THEN "real"
    ELSE IF FLe(u, FSub(FS, directionSampler_dipoleHemiWeight)) THEN "virt"
    ELSE "hemi"
\* sampleDirectionDipole with the tentative virtual source vs, its weight w
\* and Float u = sampler->next1D()
DirDipoleBranch(q, vs, w, u) ==
    IF vs.kind # "ok"
    THEN /\ ret' = [ret EXCEPT ![q] = IF vs.kind = "error" THEN ConfigError ELSE Returned(0)]
         /\ pc' = [pc EXCEPT ![q] = "done"]
         /\ UNCHANGED <<draws, loc>>
    ELSE /\ loc' = [loc EXCEPT ![q].R_virt = vs.R_virt, ![q].n0_effective = vs.n0_effective,
                               ![q].realSourceWeight = w, ![q].branch = dipoleBranch(u, w),
                               ![q].uBranch = u]
         /\ pc' = [pc EXCEPT ![q] = IF dipoleBranch(u, w) = "hemi" THEN "dirHemisphere" ELSE "dirMonopole"]
         /\ draws' = [draws EXCEPT ![q] = @ + 1]
         /\ UNCHANGED ret
\* sampleDirectionDipole with the tentative virtual source vs
DirDipoleSource(q, vs, u) == DirDipoleBranch(q, vs, IF vs.kind = "ok" THEN realSourceWeight(medium, arg[q].uL, arg[q].R, vs.R_virt, arg[q].s) ELSE NaN, u)
\* FwdScat::sampleDirectionDipole up to the selection of a branch
DirDipoleEnter(q) ==
    /\ pc[q] = "dirDipole"
    /\ \E u \in Uniforms :
          DirDipoleSource(q, getTentativeIndexMatchedVirtualSourceDisp(medium, arg[q].n0, arg[q].nL, arg[q].uL, arg[q].R, arg[q].s, arg[q].tangentMode), u)
    /\ UNCHANGED <<medium, debug, op, arg, sOut>>
\* sampleDirectionDipole: _sampleHemisphere(n0, u0, sampler), one next2D()
DirHemisphere(q) ==
    /\ pc[q] = "dirHemisphere"
    /\ \E u0 \in DirHemisphereSamples(arg[q].n0), pReal \in DirOtherPdfValues, pVirt \in DirOtherPdfValues :
          DirDipoleEnd(q, loc[q], u0, realSourceEval(q, u0, pReal),
                       virtualSourceEval(q, loc[q], Mirror(u0, loc[q].n0_effective), pVirt))
    /\ draws' = [draws EXCEPT ![q] = @ + 1]
    /\ UNCHANGED <<medium, debug, op, arg, sOut>>
\* FwdScat::sampleDirectionBoundaryAwareMonopole up to the sampled routine
DirMonopoleEnter(q) ==
    /\ pc[q] = "dirMonopole"
    /\ IF arg[q].useEffectiveBRDF
       THEN /\ pc' = [pc EXCEPT ![q] = "dirBRDF"]
            /\ UNCHANGED draws
       ELSE /\ \E u \in Uniforms :
                  pc' = [pc EXCEPT ![q] = IF FLt(u, directionSampler_origWeight) THEN "dirOrig" ELSE "dirBis"]
            /\ draws' = [draws EXCEPT ![q] = @ + 1]
    /\ UNCHANGED <<medium, debug, op, arg, ret, sOut, loc>>
\* sampleDirectionBoundaryAwareMonopole_orig: the draw of cosTheta, by one of
\* the three branches on the size of lHl
DirOrigCosTheta(q) ==
    /\ pc[q] = "dirOrig"
    /\ pc' = [pc EXCEPT ![q] = "dirOrigPhi"]
    /\ draws' = [draws EXCEPT ![q] = @ + 1]
    /\ UNCHANGED <<medium, debug, op, arg, ret, sOut, loc>>
\* sampleDirectionBoundaryAwareMonopole_orig: the draw of phi and the rest;
\* the routine returns 0 on maxPhi == minPhi, on a direction that is not
\* incoming and on an underflow of the pdf
DirOrigPhi(q) ==
    /\ pc[q] = "dirOrigPhi"
    /\ \E o \in DirLeafOracles(q, "sampleDirectionBoundaryAwareMonopole_orig") \cup {DirNoSample} :
          DirLeafReturns(q, "sampleDirectionBoundaryAwareMonopole_orig", o)
    /\ draws' = [draws EXCEPT ![q] = @ + 1]
    /\ UNCHANGED <<medium, debug, op, arg, sOut>>
\* sampleExpSinCos_dCos: Float u = sampler->next1D() selects the strategy
DirBisStrategy(q) ==
    /\ pc[q] = "dirBis"
    /\ pc' = [pc EXCEPT ![q] = "dirBisCos"]
    /\ draws' = [draws EXCEPT ![q] = @ + 1]
    /\ UNCHANGED <<medium, debug, op, arg, ret, sOut, loc>>
\* sampleExpSinCos_dCos: cosTheta by truncnorm, by the truncated exponential
\* or uniform
DirBisCos(q) ==
    /\ pc[q] = "dirBisCos"
    /\ pc' = [pc EXCEPT ![q] = "dirBisPhiChoice"]
    /\ draws' = [draws EXCEPT ![q] = @ + 1]
    /\ UNCHANGED <<medium, debug, op, arg, ret, sOut, loc>>
\* sampleExpCos_dPhi: sampler->next1D() < uniformWeight, and the return of 0
\* on phiSd == 0, which leaves the pdf of the routine 0
DirBisPhiChoice(q) ==
    /\ pc[q] = "dirBisPhiChoice"
    /\ \E phiSdIsZero \in BOOLEAN :
          IF phiSdIsZero
          THEN DirLeafReturns(q, "sampleDirectionBoundaryAwareMonopole_bis", DirNoSample)
          ELSE /\ pc' = [pc EXCEPT ![q] = "dirBisPhi"]
               /\ UNCHANGED <<ret, loc>>
    /\ draws' = [draws EXCEPT ![q] = @ + 1]
    /\ UNCHANGED <<medium, debug, op, arg, sOut>>
\* sampleExpCos_dPhi: phi by truncnorm or uniform, and the rest of
\* implDirectionBoundaryAwareMonopole_bis
DirBisPhi(q) ==
    /\ pc[q] = "dirBisPhi"
    /\ \E o \in DirLeafOracles(q, "sampleDirectionBoundaryAwareMonopole_bis") :
          DirLeafReturns(q, "sampleDirectionBoundaryAwareMonopole_bis", o)
    /\ draws' = [draws EXCEPT ![q] = @ + 1]
    /\ UNCHANGED <<medium, debug, op, arg, sOut>>
\* implDirectionBoundaryAwareMonopole_BRDF: the return on cosThetaSd == 0,
\* else cosTheta by truncnorm
DirBRDFCosTheta(q) ==
    /\ pc[q] = "dirBRDF"
    /\ \E cosThetaSdIsZero \in BOOLEAN :
          IF cosThetaSdIsZero
          THEN /\ DirLeafReturns(q, "sampleDirectionBoundaryAwareMonopole_BRDF", DirNoSample)
               /\ UNCHANGED draws
          ELSE /\ pc' = [pc EXCEPT ![q] = "dirBRDFPhi"]
               /\ draws' = [draws EXCEPT ![q] = @ + 1]
               /\ UNCHANGED <<ret, loc>>
    /\ UNCHANGED <<medium, debug, op, arg, sOut>>
\* implDirectionBoundaryAwareMonopole_BRDF: the return on phiSd == 0, else
\* phi by truncnorm and the rest
DirBRDFPhi(q) ==
    /\ pc[q] = "dirBRDFPhi"
    /\ \E o \in DirLeafOracles(q, "sampleDirectionBoundaryAwareMonopole_BRDF") \cup {DirNoSample} :
          /\ DirLeafReturns(q, "sampleDirectionBoundaryAwareMonopole_BRDF", o)
          /\ draws' = [draws EXCEPT ![q] = IF o = DirNoSample THEN @ ELSE @ + 1]
    /\ UNCHANGED <<medium, debug, op, arg, sOut>>


\* FwdScat::pdfDirectionDipole: the two evaluations of
\* pdfDirectionBoundaryAwareMonopole for the direction u0, at the real source
\* and, for u0_virt and n0_virt, at the virtual source of the construction vs
pdfDipoleRealPoint(a, u0) == [u0 |-> u0, n0 |-> a.n0, R |-> a.R]
pdfDipoleVirtPoint(a, vs, u0) == [u0 |-> Mirror(u0, vs.n0_effective), n0 |-> Mirror(a.n0, vs.n0_effective), R |-> vs.R_virt]
\* FwdScat::pdfDirectionDipole from the construction vs and the values pReal
\* and pVirt of these two evaluations
pdfDirectionDipoleOf(m, a, vs, u0, pReal, pVirt) ==
    IF vs.kind = "error" THEN ConfigError
    ELSE IF vs.kind = "fail" THEN Returned(0)
    ELSE Returned(dipoleDirectionPdf(realSourceWeight(m, a.uL, a.R, vs.R_virt, a.s),
                                     pReal, pVirt, pdfHemisphere(a.n0, u0)))
(***************************************************************************)
(* The parameter core and the virtual source constructor, called directly  *)
(***************************************************************************)
\* media of the constructor: no scattering and no absorption, no scattering,
\* no absorption, both
SourceMedia ==
    {Medium(0, 0, FS, FS), Medium(0, FS \div 2, FS, FS),
     Medium(FS, 0, FS, FS), Medium(FS, FS \div 2, FS, Frac(13, 10))}
\* normals at the exit point: the one at the entry point, a perpendicular
\* one, the opposite one, one that is not finite
SourceExitNormals == {ez, ex, Vec(0, 0, 0 - FS), NaNVec}
\* displacements: none, along the surface, along the normal, oblique
SourceDisplacements == {ZeroVec, Vec(500, 0, 0), Vec(0, 0, 500), Vec(300, 0, 400)}
\* entry directions: into the medium, out of it, along the surface, oblique
SourceDirections == {Vec(0, 0, 0 - FS), Vec(0, 0, FS), Vec(FS, 0, 0), Vec(600, 0, 0 - 800)}
SourceTangentModes == TangentModes \cup {"EUnknownTangentMode"}
SourceZvModes == ZvModes \cup {"EUnknownZvMode"}
\* lengths of calcValues: with p = 0.5 they give ps = 0.1, 0.3, 1, 9 and 10
CoreLengths == {Frac(2, 10), Frac(6, 10), 2 * FS, 18 * FS, 20 * FS}
\* the length that a caller of the tentative construction passes: undefined
\* (0.0f/0.0f in sampleLengthDipole and pdfLengthDipole) or an actual one
TentativeLengths == {NaN, Frac(2, 10), FS, 20 * FS}

InitCore ==
    /\ medium \in SourceMedia
    /\ debug \in BOOLEAN
    /\ InitQueries

\* a call of calcValues by query q
CalcValuesCall(q) ==
    /\ pc[q] = "idle"
    /\ \E length \in CoreLengths :
          /\ arg' = [arg EXCEPT ![q] = [length |-> length]]
          /\ loc' = [loc EXCEPT ![q].values = calcValues(medium, length)]
    /\ op' = [op EXCEPT ![q] = "calcValues"]
    /\ pc' = [pc EXCEPT ![q] = "done"]
    /\ UNCHANGED <<medium, debug, ret, sOut, draws>>

\* the out-parameters of getVirtualDipoleSource in the locals l of the
\* caller: they are written at the end of a construction that succeeds
sourceOutputs(l, r) ==
    IF r.kind = "ok"
    THEN [l EXCEPT !.source = r, !.R_virt = r.R_virt, !.n0_effective = r.n0_effective]
    ELSE [l EXCEPT !.source = r]
\* the value that a construction returns: true, false or Log(EError, ...)
sourceReturn(r) ==
    IF r.kind = "error" THEN ConfigError
    ELSE Returned(IF r.kind = "ok" THEN 1 ELSE 0)

\* a call of getVirtualDipoleSource by query q
GetVirtualDipoleSourceCall(q) ==
    /\ pc[q] = "idle"
    /\ \E nL \in SourceExitNormals, R \in SourceDisplacements, u0 \in SourceDirections,
          rej \in BOOLEAN, tm \in SourceTangentModes, zm \in SourceZvModes :
          \E r \in {getVirtualDipoleSource(medium, ez, u0, nL, ez, R, FS, rej, tm, zm)} :
              /\ arg' = [arg EXCEPT ![q] =
                     [n0 |-> ez, u0 |-> u0, nL |-> nL, uL |-> ez, R |-> R, length |-> FS,
                      rejectInternalIncoming |-> rej, tangentMode |-> tm, zvMode |-> zm]]
              /\ loc' = [loc EXCEPT ![q] = sourceOutputs(loc[q], r)]
              /\ ret' = [ret EXCEPT ![q] = sourceReturn(r)]
    /\ op' = [op EXCEPT ![q] = "getVirtualDipoleSource"]
    /\ pc' = [pc EXCEPT ![q] = "done"]
    /\ UNCHANGED <<medium, debug, sOut, draws>>

\* getTentativeIndexMatchedVirtualSourceDisp, lines 287 to 290: the shape
\* parameters that the construction vs and the request for the weight of
\* the real source leave computed
tentativeValues(m, vs, s, weightRequested) ==
    IF vs.kind = "ok" /\ weightRequested THEN calcValues(m, s) ELSE NoLoc.values
\* getTentativeIndexMatchedVirtualSourceDisp: what is left in
\* *optional_realSourceRelativeWeight
tentativeWeight(m, uL, R, vs, s, weightRequested) ==
    IF vs.kind = "ok" /\ weightRequested
    THEN realSourceWeight(m, uL, R, vs.R_virt, s)
    ELSE NoLoc.realSourceWeight

\* a call of getTentativeIndexMatchedVirtualSourceDisp by query q
GetTentativeCall(q) ==
    /\ pc[q] = "idle"
    /\ \E nL \in SourceExitNormals, R \in SourceDisplacements, s \in TentativeLengths,
          weightRequested \in BOOLEAN, tm \in SourceTangentModes :
          \E r \in {getTentativeIndexMatchedVirtualSourceDisp(medium, ez, nL, ez, R, s, tm)} :
              /\ arg' = [arg EXCEPT ![q] =
                     [n0 |-> ez, nL |-> nL, uL |-> ez, R |-> R, s |-> s,
                      weightRequested |-> weightRequested, tangentMode |-> tm]]
              /\ loc' = [loc EXCEPT ![q] =
                     [sourceOutputs(loc[q], r) EXCEPT
                          !.values = tentativeValues(medium, r, s, weightRequested),
                          !.realSourceWeight = tentativeWeight(medium, ez, R, r, s, weightRequested)]]
              /\ ret' = [ret EXCEPT ![q] = sourceReturn(r)]
    /\ op' = [op EXCEPT ![q] = "getTentativeIndexMatchedVirtualSourceDisp"]
    /\ pc' = [pc EXCEPT ![q] = "done"]
    /\ UNCHANGED <<medium, debug, sOut, draws>>

\* lengths passed to evalMonopole: none, and actual ones
MonopoleLengths == {0, FS, 20 * FS}
\* a call of evalMonopole by query q
EvalMonopoleCall(q) ==
    /\ pc[q] = "idle"
    /\ \E u0 \in SourceDirections, uL \in SourceDirections,
          R \in SourceDisplacements, length \in MonopoleLengths :
          /\ arg' = [arg EXCEPT ![q] = [u0 |-> u0, uL |-> uL, R |-> R, length |-> length]]
          /\ ret' = [ret EXCEPT ![q] = Returned(evalMonopole(medium, debug, u0, uL, R, length))]
    /\ op' = [op EXCEPT ![q] = "evalMonopole"]
    /\ pc' = [pc EXCEPT ![q] = "done"]
    /\ UNCHANGED <<medium, debug, sOut, draws, loc>>

NextCore ==
    \/ CalcValuesCall(1)
    \/ EvalMonopoleCall(1)
    \/ GetVirtualDipoleSourceCall(1)
    \/ GetTentativeCall(1)
SpecCore == InitCore /\ [][NextCore]_vars

(***************************************************************************)
(* The samplers, one query                                                 *)
(***************************************************************************)
InitSample ==
    /\ medium \in SampleMedia
    /\ debug \in BOOLEAN
    /\ InitQueries

\* the steps of sampleLengthLongLimit, with the sampleLengthAbsorption that
\* it delegates to
LongLimitStep(q) ==
    \/ SampleLengthLongLimitCall(q)
    \/ LongLimitEnter(q)
    \/ BracketExpand(q)
    \/ BracketEnd(q)
    \/ Solve(q)
    \/ AbsorptionStep(q)
LengthStep(q) ==
    \/ SampleLengthDipoleCall(q)
    \/ PickDisplacement(q)
    \/ PickStrategy(q)
    \/ SampleLengthShortLimitCall(q)
    \/ SampleLengthAbsorptionCall(q)
    \/ ShortLimitKnownU0(q)
    \/ KnownU0Truncnorm(q)
    \/ ShortLimitMargPickFit(q)
    \/ MargBackupChoice(q)
    \/ MargUniformDraw(q)
    \/ MargTruncnorm(q)
    \/ PdfLengthCall(q)
DirectionStep(q) ==
    \/ SampleDirectionDipoleCall(q)
    \/ SampleDirectionMonopoleCall(q)
    \/ SampleDirectionVariantCall(q)
    \/ DirDipoleEnter(q)
    \/ DirHemisphere(q)
    \/ DirMonopoleEnter(q)
    \/ DirOrigCosTheta(q)
    \/ DirOrigPhi(q)
    \/ DirBisStrategy(q)
    \/ DirBisCos(q)
    \/ DirBisPhiChoice(q)
    \/ DirBisPhi(q)
    \/ DirBRDFCosTheta(q)
    \/ DirBRDFPhi(q)

NextSample == LengthStep(1) \/ LongLimitStep(1) \/ DirectionStep(1)
SpecSample == InitSample /\ [][NextSample]_vars

\* sampleLengthLongLimit alone; a call that can take a step takes it
NextLongLimit == LongLimitStep(1)
SpecLongLimit == InitSample /\ [][NextLongLimit]_vars /\ WF_vars(NextLongLimit)

(***************************************************************************)
(* Two queries on the same medium, each with its own Sampler               *)
(***************************************************************************)
ConcurrentGeometries == {Geometry(ez, Vec(0, 0, 0 - FS), ez, Vec(0, 0, FS), Vec(FS, 0, 0))}
InitConcurrent ==
    /\ medium = Medium(FS, 0, FS, FS)
    /\ debug \in BOOLEAN
    /\ InitQueries
\* a step of query q: an evaluation, a length pdf, or a step of
\* sampleLengthDipole or of sampleDirectionDipole
ConcurrentStep(q) ==
    \/ EvalDipoleCallWith(q, ConcurrentGeometries, {FALSE}, {"EUnmodifiedIncoming"}, {"EClassicDiffusion"}, {ERealAndVirt})
    \/ PdfLengthCallWith(q, ConcurrentGeometries, {TRUE}, {"EUnmodifiedIncoming"})
    \/ SampleLengthDipoleCallWith(q, ConcurrentGeometries, {TRUE}, {"EUnmodifiedIncoming"})
    \/ PickDisplacement(q)
    \/ PickStrategy(q)
    \/ ShortLimitKnownU0(q)
    \/ KnownU0Truncnorm(q)
    \/ LongLimitEnter(q)
    \/ DirectionCall(q, {"sampleDirectionDipole"}, ConcurrentGeometries, {"EUnmodifiedIncoming"}, {FALSE})
    \/ DirDipoleEnter(q)
    \/ DirHemisphere(q)
    \/ DirMonopoleEnter(q)
    \/ DirOrigCosTheta(q)
    \/ DirOrigPhi(q)
    \/ DirBisStrategy(q)
    \/ DirBisCos(q)
    \/ DirBisPhiChoice(q)
    \/ DirBisPhi(q)
NextConcurrent == \E q \in Queries : ConcurrentStep(q)
SpecConcurrent == InitConcurrent /\ [][NextConcurrent]_vars

(***************************************************************************)
(* The pdf-only routines.  An implementation routine that a sampler and    *)
(* its pdf share takes Sampler *sampler, NULL from the pdf: sampler is     *)
(* TRUE below when one is passed.  The uses of a routine are the calls     *)
(* that it makes on the sampler, each named by its expression.  A use of   *)
(* the NULL sampler is undefined: the call faults, or it goes on with      *)
(* whatever the draw gave.                                                 *)
(***************************************************************************)
\* the sampler that a pdf-only routine passes on
NoSampler == FALSE
\* the outcome of a call that faulted on the NULL sampler
SamplerFault == [err |-> TRUE, val |-> NaN]

\* implLengthShortLimitKnownU0: the draw of t, after the return on r == 0
implLengthShortLimitKnownU0Uses(sampler, r) ==
    IF r = 0 THEN {}
    ELSE IF sampler THEN {"truncnorm(mean, stddev, 0.0, 1.0/0.0, sampler)"}
    ELSE {}
\* implLengthShortLimitMargOverU0_internal: after the return on r == 0, the
\* choice of the uniform backup, for which next1D() gives v, and the draw
margInternalUses(sampler, r, fit, v) ==
    IF r = 0 THEN {}
    ELSE IF ~sampler THEN {}
    ELSE IF fit.uniformBackupWeight = FS THEN {"uniformSpan * sampler->next1D()"}
    ELSE IF FLt(v, fit.uniformBackupWeight)
    THEN {"sampler->next1D() < uniformBackupWeight", "uniformSpan * sampler->next1D()"}
    ELSE {"sampler->next1D() < uniformBackupWeight", "truncnorm(t_mean, t_stddev, 0.0, 1.0/0.0, sampler)"}
\* implLengthShortLimitMargOverU0: with a sampler, next1D() gives u and one
\* of the two fits is sampled; the other is evaluated with NULL
margOverU0Uses(sampler, r, fitSafety, fitOrig, u, v) ==
    IF sampler
    THEN {"sampler->next1D() > safetyWeight"}
         \cup (IF FGt(u, safetyWeight)
               THEN margInternalUses(sampler, r, fitSafety, v) \cup margInternalUses(FALSE, r, fitOrig, v)
               ELSE margInternalUses(sampler, r, fitOrig, v) \cup margInternalUses(FALSE, r, fitSafety, v))
    ELSE margInternalUses(FALSE, r, fitOrig, v) \cup margInternalUses(FALSE, r, fitSafety, v)
\* implLengthShortLimit
implLengthShortLimitUses(sampler, m, a, u, v) ==
    IF a.hasU0 THEN implLengthShortLimitKnownU0Uses(sampler, shortLimitR(m, a.R))
    ELSE margOverU0Uses(sampler, shortLimitR(m, a.R), margFit(m, a.R, a.uL, safetyFac),
                        margFit(m, a.R, a.uL, FS), u, v)

\* sampleExpSinCos_dCos: the strategy that u selects, ENone without a sampler
dCosStrategy(sampler, u, aIsSmall) ==
    IF ~sampler THEN "ENone"
    ELSE IF FLt(u, IF aIsSmall THEN 0 ELSE Frac(49, 100)) THEN "ELaplace"
    ELSE IF FLt(u, Frac(98, 100)) THEN "EExp"
    ELSE "EUniform"
\* sampleExpSinCos_dCos
sampleExpSinCos_dCosUses(sampler, strategy) ==
    (IF sampler THEN {"Float u = sampler->next1D()"} ELSE {})
        \cup (IF sampler /\ strategy = "ELaplace" THEN {"truncnorm(mean, stddev, -1.0, 0.0, sampler)"} ELSE {})
        \cup (IF sampler /\ strategy = "EExp" THEN {"uniformToTruncatedExponential(b, -1.0, 0.0, sampler->next1D())"} ELSE {})
        \cup (IF sampler /\ strategy = "EUniform" THEN {"-sampler->next1D()"} ELSE {})
\* a sampleExpCos_dPhi that makes its first draw whatever the sampler is
sampleExpCos_dPhiUsesUnguarded(sampler, v, phiSdIsZero) ==
    {"sampler->next1D() < uniformWeight"}
        \cup (IF phiSdIsZero THEN {}
              ELSE IF sampler /\ ~FLt(v, Frac(10, 100)) THEN {"truncnorm(phiMean, phiSd, phiLo, phiHi, sampler)"}
              ELSE IF sampler /\ FLt(v, Frac(10, 100)) THEN {"phiLo + sampler->next1D() * (phiHi - phiLo)"}
              ELSE {})
\* sampleExpCos_dPhi: next1D() gives v; the return on phiSd == 0
sampleExpCos_dPhiUses(sampler, v, phiSdIsZero) ==
    (IF sampler THEN {"sampler->next1D() < uniformWeight"} ELSE {})
        \cup (IF phiSdIsZero THEN {}
              ELSE IF sampler /\ ~FLt(v, Frac(10, 100)) THEN {"truncnorm(phiMean, phiSd, phiLo, phiHi, sampler)"}
              ELSE IF sampler /\ FLt(v, Frac(10, 100)) THEN {"phiLo + sampler->next1D() * (phiHi - phiLo)"}
              ELSE {})
\* implDirectionBoundaryAwareMonopole_bis on the path p, with the draws u of
\* sampleExpSinCos_dCos and v of sampleExpCos_dPhi
implBisUses(sampler, p, u, v) ==
    sampleExpSinCos_dCosUses(sampler, dCosStrategy(sampler, u, p.aIsSmall))
        \cup sampleExpCos_dPhiUses(sampler, v, p.phiSdIsZero)
\* implDirectionBoundaryAwareMonopole_BRDF on the path p
implBRDFUses(sampler, p) ==
    IF p.cosThetaSdIsZero THEN {}
    ELSE (IF sampler THEN {"truncnorm(cosThetaMean, cosThetaSd, -1.0, 0.0, sampler)"} ELSE {})
         \cup (IF p.phiSdIsZero \/ ~sampler THEN {} ELSE {"truncnorm(phiMean, phiSd, phiLo, phiHi, sampler)"})

\* FwdScat::pdfLengthShortLimit: Float s by value, NULL for the sampler
pdfLengthShortLimitUses(m, a, u, v) == implLengthShortLimitUses(NoSampler, m, a, u, v)
\* FwdScat::pdfLengthDipole, given the tentative virtual source vs
pdfLengthDipoleUses(m, a, vs, u, v) ==
    IF vs.kind # "ok" \/ lengthSample_w1 = 0 THEN {} ELSE pdfLengthShortLimitUses(m, a, u, v)
\* the uses of a pdf-only length routine
pdfLengthUses(name, m, a, u, v) ==
    CASE name = "pdfLengthShortLimit" -> pdfLengthShortLimitUses(m, a, u, v)
      [] name = "pdfLengthDipole" ->
             pdfLengthDipoleUses(m, a, getTentativeIndexMatchedVirtualSourceDisp(m, a.n0, a.nL, a.uL, a.R, NaN, a.tangentMode), u, v)
      [] OTHER -> {}
\* the value of a pdf-only length routine
pdfLengthValue(name, m, a, s) ==
    CASE name = "pdfLengthShortLimit" -> Returned(pdfLengthShortLimit(m, a.R, a.hasU0, a.u0, a.uL, s))
      [] name = "pdfLengthLongLimit" -> Returned(pdfLengthLongLimit(m, a.R, a.uL, s))
      [] name = "pdfLengthAbsorption" -> Returned(pdfLengthAbsorption(m, s))
      [] name = "pdfLengthDipole" -> pdfLengthDipole(m, a, s)

\* FwdScat::pdfDirectionBoundaryAwareMonopole_bis: Vector u0copy(u0), NULL
pdfBisUses(p, u, v) == implBisUses(NoSampler, p, u, v)
\* FwdScat::pdfDirectionBoundaryAwareMonopole_BRDF: Vector u0nonConst(u0), NULL
pdfBRDFUses(p) == implBRDFUses(NoSampler, p)
\* FwdScat::pdfDirectionBoundaryAwareMonopole
pdfMonopoleUses(useEffectiveBRDF, p, u, v) == IF useEffectiveBRDF THEN pdfBRDFUses(p) ELSE pdfBisUses(p, u, v)
\* the uses of a pdf-only direction routine; pdfDirectionDipole evaluates the
\* monopole at the real source on the path p and at the virtual one on pv
pdfDirectionUses(name, vs, useEffectiveBRDF, p, pv, u, v) ==
    CASE name = "pdfDirectionBoundaryAwareMonopole_orig" -> {}
      [] name = "pdfDirectionBoundaryAwareMonopole_bis" -> pdfBisUses(p, u, v)
      [] name = "pdfDirectionBoundaryAwareMonopole_BRDF" -> pdfBRDFUses(p)
      [] name = "pdfDirectionBoundaryAwareMonopole" -> pdfMonopoleUses(useEffectiveBRDF, p, u, v)
      [] name = "pdfDirectionDipole" ->
             IF vs.kind # "ok" THEN {}
             ELSE pdfMonopoleUses(useEffectiveBRDF, p, u, v) \cup pdfMonopoleUses(useEffectiveBRDF, pv, u, v)

\* FwdScat::pdfDirectionBoundaryAwareMonopole_orig: 0 for a direction that is
\* not incoming, else the density, of value p.density
pdfOrigOf(u0, n0, p) == IF FGe(Dot(u0, n0), 0) THEN 0 ELSE p.density
\* implDirectionBoundaryAwareMonopole_bis without a sampler: cosTheta is
\* clamped to [-1, 0]; the pdf stays 0 on phiPdf == 0
pdfBisOf(u0, n0, p) == IF p.phiSdIsZero THEN 0 ELSE p.density
\* implDirectionBoundaryAwareMonopole_BRDF without a sampler: cosTheta is
\* clamped to [-1, 0]; the pdf stays 0 on cosThetaSd == 0 and on phiSd == 0
pdfBRDFOf(u0, n0, p) == IF p.cosThetaSdIsZero \/ p.phiSdIsZero THEN 0 ELSE p.density
\* FwdScat::pdfDirectionBoundaryAwareMonopole
pdfMonopoleOf(u0, n0, useEffectiveBRDF, p) ==
    IF useEffectiveBRDF THEN pdfBRDFOf(u0, n0, p)
    ELSE FAdd(FMul(pdfOrigOf(u0, n0, p), directionSampler_origWeight),
              FMul(pdfBisOf(u0, n0, p), FSub(FS, directionSampler_origWeight)))
\* the value of a pdf-only direction routine
pdfDirectionValue(name, m, a, vs, p, pv) ==
    CASE name = "pdfDirectionBoundaryAwareMonopole_orig" -> Returned(pdfOrigOf(a.u0, a.n0, p))
      [] name = "pdfDirectionBoundaryAwareMonopole_bis" -> Returned(pdfBisOf(a.u0, a.n0, p))
      [] name = "pdfDirectionBoundaryAwareMonopole_BRDF" -> Returned(pdfBRDFOf(a.u0, a.n0, p))
      [] name = "pdfDirectionBoundaryAwareMonopole" -> Returned(pdfMonopoleOf(a.u0, a.n0, a.useEffectiveBRDF, p))
      [] name = "pdfDirectionDipole" ->
             pdfDirectionDipoleOf(m, a, vs, a.u0,
                 pdfMonopoleOf(a.u0, a.n0, a.useEffectiveBRDF, p),
                 IF vs.kind = "ok"
                 THEN pdfMonopoleOf(Mirror(a.u0, vs.n0_effective), Mirror(a.n0, vs.n0_effective), a.useEffectiveBRDF, pv)
                 ELSE 0)

PdfLengthRoutines == {"pdfLengthDipole", "pdfLengthShortLimit", "pdfLengthLongLimit", "pdfLengthAbsorption"}
PdfDirectionRoutines ==
    {"pdfDirectionDipole", "pdfDirectionBoundaryAwareMonopole", "pdfDirectionBoundaryAwareMonopole_orig",
     "pdfDirectionBoundaryAwareMonopole_bis", "pdfDirectionBoundaryAwareMonopole_BRDF"}
\* what the sampler would give
PathDraws == {0, FS \div 2}
\* the directions u0 of a pdf: into the medium, tangent and out of it
PdfDirections == {Vec(0, 0, 0 - FS), Vec(600, 0, 0 - 800), Vec(FS, 0, 0), Vec(0, 0, FS)}
\* the path of one evaluation of the density of the monopole: the branches
\* on a, cosThetaSd and phiSd and the value of the density
PdfPaths == [aIsSmall : BOOLEAN, phiSdIsZero : BOOLEAN, cosThetaSdIsZero : BOOLEAN, density : {FS}]
PdfTangentModes == {"EFrisvadEtAl", "EUnmodifiedIncoming"}
\* the arguments of a pdf-only direction routine
PdfDirectionArgs(g, u0, s, tangentMode, useEffectiveBRDF) ==
    [u0 |-> u0, n0 |-> g.n0, nL |-> g.nL, uL |-> g.uL, R |-> g.R, s |-> s,
     tangentMode |-> tangentMode, useEffectiveBRDF |-> useEffectiveBRDF]

\* the return of a pdf-only routine that made the given uses of its sampler,
\* none for a routine that does not reach one
PdfReturns(q, uses, value) ==
    IF uses = {}
    THEN /\ ret' = [ret EXCEPT ![q] = value]
         /\ UNCHANGED draws
    ELSE \/ /\ ret' = [ret EXCEPT ![q] = SamplerFault]
            /\ UNCHANGED draws
         \/ /\ ret' = [ret EXCEPT ![q] = value]
            /\ draws' = [draws EXCEPT ![q] = @ + Cardinality(uses)]
\* a call of a pdf-only length routine by query q; s is passed by value
PdfLengthOnlyCall(q) ==
    /\ pc[q] = "idle"
    /\ \E name \in PdfLengthRoutines, g \in ShortLimitGeometries, hasU0 \in BOOLEAN,
          tm \in LengthTangentModes, s \in PdfLengths, u \in PathDraws, v \in PathDraws :
          /\ arg' = [arg EXCEPT ![q] = LengthArgs(g, hasU0, tm, s)]
          /\ op' = [op EXCEPT ![q] = name]
          /\ sOut' = [sOut EXCEPT ![q] = s]
          /\ PdfReturns(q, pdfLengthUses(name, medium, LengthArgs(g, hasU0, tm, s), u, v),
                        pdfLengthValue(name, medium, LengthArgs(g, hasU0, tm, s), s))
    /\ pc' = [pc EXCEPT ![q] = "done"]
    /\ UNCHANGED <<medium, debug, loc>>
\* a call of a pdf-only direction routine by query q with the arguments a;
\* u0 is a const
\* reference and s is passed by value; the implementation routines get a copy
\* of u0
PdfDirectionCallOf(q, name, a, vs) ==
    /\ arg' = [arg EXCEPT ![q] = a]
    /\ op' = [op EXCEPT ![q] = name]
    /\ loc' = [loc EXCEPT ![q] = [NoLoc EXCEPT !.u0 = a.u0]]
    /\ sOut' = [sOut EXCEPT ![q] = a.s]
    /\ \E p \in PdfPaths, pv \in PdfPaths, u \in PathDraws, v \in PathDraws :
          PdfReturns(q, pdfDirectionUses(name, vs, a.useEffectiveBRDF, p, pv, u, v),
                     pdfDirectionValue(name, medium, a, vs, p, pv))
\* a call of a pdf-only direction routine by query q
PdfDirectionCall(q) ==
    /\ pc[q] = "idle"
    /\ \E name \in PdfDirectionRoutines, g \in LengthGeometries, u0 \in PdfDirections,
          s \in DirLengths, tm \in PdfTangentModes, brdf \in BOOLEAN :
          \E vs \in {getTentativeIndexMatchedVirtualSourceDisp(medium, g.n0, g.nL, g.uL, g.R, s, tm)} :
              PdfDirectionCallOf(q, name, PdfDirectionArgs(g, u0, s, tm, brdf), vs)
    /\ pc' = [pc EXCEPT ![q] = "done"]
    /\ UNCHANGED <<medium, debug>>

NextPdf == PdfLengthOnlyCall(1) \/ PdfDirectionCall(1)
SpecPdf == InitSample /\ [][NextPdf]_vars

(***************************************************************************)
(* Properties of the samplers                                              *)
(***************************************************************************)
\* query q has returned from a call of the routine name
ReturnedFrom(q, name) == pc[q] = "done" /\ op[q] = name

\* C3: in a medium with sigma_a = 0, sampleLengthAbsorption returns the pdf 0
\* without a call on the Sampler and without a write to s, and
\* pdfLengthAbsorption returns 0 for every s.
C3_NoAbsorptionNoSample ==
    \A q \in Queries :
        medium.sigma_a = 0 =>
            /\ ReturnedFrom(q, "sampleLengthAbsorption") =>
                   ret[q] = Returned(0) /\ draws[q] = 0 /\ sOut[q] = arg[q].s
            /\ ReturnedFrom(q, "pdfLengthAbsorption") => ret[q] = Returned(0)
\* sampleLengthAbsorption has returned in a medium without absorption
C3_SampledWithoutAbsorption ==
    \E q \in Queries :
        /\ ReturnedFrom(q, "sampleLengthAbsorption")
        /\ medium.sigma_a = 0
        /\ sOut[q] = 7 * FS

\* the tentative virtual source of a length call with the arguments a
TentativeSourceOf(a) == getTentativeIndexMatchedVirtualSourceDisp(medium, a.n0, a.nL, a.uL, a.R, NaN, a.tangentMode)
\* the pdfs at the end of sampleLengthDipole of query q: that of the selected
\* strategy as it was returned, the other ones from the pdf routines
DipoleP1(q) ==
    IF loc[q].strategy = "short" THEN loc[q].pdf
    ELSE pdfLengthShortLimit(medium, arg[q].R, arg[q].hasU0, arg[q].u0, arg[q].uL, sOut[q])
DipoleP2(q) ==
    FMul(FS \div 2,
         FAdd(IF loc[q].strategy = "long" THEN loc[q].pdf
              ELSE pdfLengthLongLimit(medium, loc[q].R_effective, arg[q].uL, sOut[q]),
              pdfLengthLongLimit(medium, loc[q].R_other, arg[q].uL, sOut[q])))
\* C4: sampleLengthDipole returns 0 when the tentative virtual source cannot
\* be constructed and when the selected strategy returns the pdf 0; otherwise
\* it returns 1/(w1 p1 + w2 p2 + w3 p3).  It ends in an error only for a
\* tangent plane mode that does not exist, never for a degenerate geometry.
C4_DipoleLengthWeight ==
    \A q \in Queries :
        ReturnedFrom(q, "sampleLengthDipole") =>
            /\ ret[q].err <=> arg[q].tangentMode \notin TangentModes
            /\ TentativeSourceOf(arg[q]).kind = "fail" => ret[q] = Returned(0)
            /\ (TentativeSourceOf(arg[q]).kind = "ok" /\ FEq(loc[q].pdf, 0)) => ret[q] = Returned(0)
            /\ (TentativeSourceOf(arg[q]).kind = "ok" /\ ~FEq(loc[q].pdf, 0)) =>
                   ret[q] = Returned(FDiv(FS, FAdd(FAdd(FMul(lengthSample_w1, DipoleP1(q)),
                                                        FMul(lengthSample_w2, DipoleP2(q))),
                                                   FMul(lengthSample_w3, 0))))
\* sampleLengthDipole has returned 0 because the strategy that it selected
\* returned the pdf 0
C4_FailedStrategyGaveZero ==
    \E q \in Queries :
        /\ ReturnedFrom(q, "sampleLengthDipole")
        /\ loc[q].strategy = "long"
        /\ loc[q].pdf = 0
        /\ ret[q] = Returned(0)

\* the failures of the root search of query q: the root is not bracketed, a
\* bound of the bracket is not finite, the solver threw
RootSearchFailed(q) ==
    \/ loc[q].threw
    \/ loc[q].hi # NaN /\ (~IsFinite(targetHi(loc[q])) \/ FLt(targetHi(loc[q]), 0))
\* what holds of sampleLengthLongLimit at every step
LongLimitBounded(q) ==
    /\ loc[q].expansions <= 9
    /\ loc[q].iterations <= max_iter
    /\ ReturnedFrom(q, "sampleLengthLongLimit") =>
           /\ ~ret[q].err
           /\ RootSearchFailed(q) => ret[q] = Returned(0)
\* C6: sampleLengthLongLimit always terminates: the loop that widens the
\* bracket runs at most 9 times, the solver at most 1000 iterations, a call
\* that has started returns, and it returns the pdf 0 and no error when the
\* root is not bracketed, a bound is not finite or the solver fails.
C6_LongLimitTerminates ==
    /\ [](\A q \in Queries : LongLimitBounded(q))
    /\ \A q \in Queries : (pc[q] = "longLimit") ~> (pc[q] = "done")
\* the bracket was widened as often as the loop allows, it still does not
\* hold the root, and the call has returned 0
C6_BracketGivenUp ==
    \E q \in Queries :
        /\ ReturnedFrom(q, "sampleLengthLongLimit")
        /\ loc[q].expansions = 9
        /\ FLt(targetHi(loc[q]), 0)
        /\ ret[q] = Returned(0)

\* the sample routines other than sampleLengthLongLimit and the
\* sampleLengthDipole that calls it
RoutinesWithoutRootSearch ==
    {"sampleLengthShortLimit", "sampleLengthAbsorption", "sampleDirectionDipole",
     "sampleDirectionBoundaryAwareMonopole"} \cup DirectionVariants
\* the number of places in the code of the routine of query q where the
\* Sampler or truncnorm is called, on its longest path
drawSites(q) ==
    CASE op[q] = "sampleLengthAbsorption" -> 1
      [] op[q] = "sampleLengthShortLimit" -> IF arg[q].hasU0 THEN 1 ELSE 3
      [] op[q] = "sampleDirectionBoundaryAwareMonopole_orig" -> 2
      [] op[q] = "sampleDirectionBoundaryAwareMonopole_bis" -> 4
      [] op[q] = "sampleDirectionBoundaryAwareMonopole_BRDF" -> 2
      [] op[q] = "sampleDirectionBoundaryAwareMonopole" -> 5
      [] op[q] = "sampleDirectionDipole" -> 6
\* C7 as stated: apart from the root search of LongLimit, every sample
\* routine returns after a fixed number of draws, whatever values the Sampler
\* and truncnorm return.
C7_FixedNumberOfDraws ==
    \A q \in Queries :
        (pc[q] = "done" /\ op[q] \in RoutinesWithoutRootSearch) => draws[q] <= drawSites(q)
\* C7: apart from the root search of LongLimit, every sample routine makes a
\* fixed bounded number of draws, but for sampleLengthShortLimit, which draws
\* from truncnorm once more for every result that is exactly 0.
C7_DrawsFixedUpToRejections ==
    \A q \in Queries :
        op[q] \in RoutinesWithoutRootSearch =>
            /\ draws[q] <= drawSites(q) + loc[q].retries
            /\ loc[q].retries > 0 => op[q] = "sampleLengthShortLimit"
\* sampleLengthShortLimit has returned after truncnorm gave 0 and was called
\* again
C7_ShortLimitDrewAgain ==
    \E q \in Queries :
        /\ ReturnedFrom(q, "sampleLengthShortLimit")
        /\ loc[q].retries > 0
        /\ draws[q] > drawSites(q)

\* every routine that samples
SampleRoutines == RoutinesWithoutRootSearch \cup {"sampleLengthDipole", "sampleLengthLongLimit"}
\* query q has returned a pdf or a weight that is not 0
ReturnedNonzero(q) == pc[q] = "done" /\ ~ret[q].err /\ ret[q].val # 0
\* C9 as stated: with MTS_FWDSCAT_DEBUG, every sample routine that returns a
\* nonzero pdf has evaluated the pdf again through its pdf routine.
C9_EverySampleRoutineRechecks ==
    \A q \in Queries :
        (debug /\ ReturnedNonzero(q) /\ op[q] \in SampleRoutines) => op[q] \in loc[q].checked
\* C9: with MTS_FWDSCAT_DEBUG, the routines
\* sampleDirectionBoundaryAwareMonopole_orig, _bis and _BRDF that return a
\* nonzero pdf evaluate it again through their pdf routine and warn when the
\* two differ by more than 1e-3 of the pdf; the other sample routines have no
\* such check of their own, and no routine has one without MTS_FWDSCAT_DEBUG.
C9_OnlyMonopoleVariantsRecheck ==
    \A q \in Queries :
        (ReturnedNonzero(q) /\ op[q] \in SampleRoutines) =>
            /\ op[q] \in loc[q].checked <=> (debug /\ op[q] \in DirectionVariants)
            /\ loc[q].checked \subseteq DirectionVariants
            /\ op[q] \in DirectionVariants =>
                   (loc[q].warned <=>
                       /\ debug
                       /\ FGt(FAbs(FSub(ret[q].val, loc[q].pdfCheck)), FMul(Frac(1, 1000), ret[q].val)))
\* sampleDirectionBoundaryAwareMonopole_bis has returned a nonzero pdf in a
\* build with MTS_FWDSCAT_DEBUG, has evaluated it again and has warned
C9_BisRecheckedAndWarned ==
    \E q \in Queries :
        /\ debug
        /\ ReturnedFrom(q, "sampleDirectionBoundaryAwareMonopole_bis")
        /\ ret[q].val # 0
        /\ op[q] \in loc[q].checked
        /\ loc[q].warned

\* C10: the weight that sampleLengthDipole returns is 1/pdfLengthDipole at
\* the sampled length, whichever strategy made the sample and whichever of R
\* and R_virt fed the LongLimit strategy.
C10_WeightIsInversePdf ==
    \A q \in Queries :
        (ReturnedFrom(q, "sampleLengthDipole") /\ ~ret[q].err /\ ret[q].val # 0) =>
            ret[q].val = FDiv(FS, pdfLengthDipole(medium, arg[q], sOut[q]).val)
\* sampleLengthDipole has returned a finite weight for a sample of LongLimit
\* at the displacement of the virtual source
C10_LongLimitSampledAtVirtualSource ==
    \E q \in Queries :
        /\ ReturnedFrom(q, "sampleLengthDipole")
        /\ loc[q].strategy = "long"
        /\ loc[q].R_effective = loc[q].R_virt
        /\ loc[q].R_effective # arg[q].R
        /\ IsFinite(ret[q].val)
        /\ ret[q].val > 0

(***************************************************************************)
(* Properties of concurrent queries                                        *)
(***************************************************************************)
\* all that belongs to query q
QueryState(q) == <<pc[q], op[q], arg[q], ret[q], sOut[q], draws[q], loc[q]>>
\* a step writes nothing but what belongs to one query
StepOfOneQuery ==
    /\ medium' = medium
    /\ debug' = debug
    /\ \E q \in Queries : \A r \in Queries \ {q} : QueryState(r)' = QueryState(r)
\* the result of query q from its own arguments and its own draws
ResultAlone(q) ==
    CASE op[q] = "evalDipole" -> evalDipoleOf(arg[q])
      [] op[q] = "pdfLengthDipole" -> pdfLengthDipole(medium, arg[q], arg[q].s)
      [] op[q] = "pdfLengthAbsorption" -> Returned(pdfLengthAbsorption(medium, arg[q].s))
      [] op[q] = "sampleLengthDipole" ->
            IF TentativeSourceOf(arg[q]).kind = "ok"
            THEN sampleLengthDipoleEnd(medium, arg[q], loc[q], loc[q].pdf, sOut[q])
            ELSE Returned(0)
      [] OTHER -> ret[q]
\* C8: queries are independent under interleaving: a step of one query
\* writes nothing that belongs to another query or to the medium, and the
\* result of a query follows from its own arguments and its own draws.
C8_QueriesIndependent ==
    /\ [][StepOfOneQuery]_vars
    /\ [](\A q \in Queries : pc[q] = "done" => ret[q] = ResultAlone(q))
\* one query has returned a sample while the other one is between two draws
C8_Interleaved ==
    /\ ReturnedFrom(1, "sampleLengthDipole")
    /\ draws[1] > 0
    /\ pc[2] \notin {"idle", "done"}
    /\ draws[2] > 0

(***************************************************************************)
(* Properties of the parameter core and of the virtual source constructor  *)
(***************************************************************************)
\* the shape parameters v are all >= 0 (none of them is NaN)
valuesNonNegative(v) == FGe(v.C, 0) /\ FGe(v.D, 0) /\ FGe(v.E, 0) /\ FGe(v.F, 0) /\ FGe(v.Z, 0)
\* the regime that the claim gives to ps: below 0.3, above 9, in between
regimeOf(ps) == IF ps < Frac(3, 10) THEN "series" ELSE IF ps > 9 * FS THEN "asymptotic" ELSE "exact"
\* the expressions of the three regimes
regimeValues(name, p, ps) ==
    CASE name = "series" -> calcValuesSmall(p, ps, FMul(FMul(ps, ps), ps))
      [] name = "asymptotic" -> calcValuesLarge(p, ps, FExp(FMul((0 - 2) * FS, ps)))
      [] name = "exact" -> calcValuesExact(p, ps, FExp(FMul((0 - 2) * FS, ps)))
\* C14: for s > 0, mu in (0,1] and sigma_s > 0, calcValues returns C, D, E,
\* F and Z that are all >= 0; they come from the series for ps < 0.3, from
\* the asymptotic expressions for ps > 9 and from the exact ones otherwise,
\* ps = 0.3 and ps = 9 included, with ps = 0.5 mu sigma_s s.
C14_ShapeParametersNonNegative ==
    \A q \in Queries :
        (ReturnedFrom(q, "calcValues") /\ medium.sigma_s > 0 /\ medium.mu > 0) =>
            /\ valuesNonNegative(loc[q].values)
            /\ loc[q].values = regimeValues(regimeOf(FMul(HalfSigmaSMu(medium), arg[q].length)),
                                            HalfSigmaSMu(medium),
                                            FMul(HalfSigmaSMu(medium), arg[q].length))
\* calcValues has returned for ps = 0.3, the lower limit of the exact regime
C14_ComputedAtRegimeLimit ==
    \E q \in Queries :
        /\ ReturnedFrom(q, "calcValues")
        /\ FMul(HalfSigmaSMu(medium), arg[q].length) = Frac(3, 10)
        /\ loc[q].values = calcValuesExact(HalfSigmaSMu(medium), Frac(3, 10), FExp(FMul((0 - 2) * FS, Frac(3, 10))))
        /\ valuesNonNegative(loc[q].values)

\* the outcome of step 1 for the arguments a
StepOneOf(a) == effectiveNormal(a.n0, a.nL, a.R, a.tangentMode)
\* the normal whose cross product with R a Frisvad tangent mode takes
crossNormalOf(a) == IF a.tangentMode = "EFrisvadEtAl" THEN a.n0 ELSE VAdd(a.n0, a.nL)
FrisvadTangentModes == {"EFrisvadEtAl", "EFrisvadEtAlWithMeanNormal"}
\* the outputs of the call of query q are as they were before the call
OutputsUnwritten(q) ==
    /\ loc[q].source.u0_virt = Unwritten
    /\ loc[q].source.R_virt = Unwritten
    /\ loc[q].source.n0_effective = Unwritten
    /\ loc[q].R_virt = NoLoc.R_virt
    /\ loc[q].n0_effective = NoLoc.n0_effective
\* C16: step 1 of getVirtualDipoleSource.  In the two Frisvad tangent modes
\* the effective normal is n0 when R = 0, and the call fails when R # 0 and
\* cross(n0, R) (cross(n0 + nL, R) with the mean normal) is zero; in the
\* unmodified modes the effective normal is n0, respectively nL; in every
\* mode the call fails when the effective normal is not finite.  A call that
\* fails leaves u0_virt, R_virt and the effective normal unwritten.
C16_EffectiveNormal ==
    \A q \in Queries :
        ReturnedFrom(q, "getVirtualDipoleSource") =>
            /\ (arg[q].tangentMode \in FrisvadTangentModes /\ arg[q].R = ZeroVec) =>
                   /\ StepOneOf(arg[q]) = [kind |-> "ok", n |-> arg[q].n0]
                   /\ loc[q].source.kind = "ok" => loc[q].n0_effective = arg[q].n0
            /\ (arg[q].tangentMode \in FrisvadTangentModes /\ arg[q].R # ZeroVec
                    /\ Cross(crossNormalOf(arg[q]), arg[q].R) = ZeroVec) =>
                   ret[q] = Returned(0)
            /\ (arg[q].tangentMode = "EUnmodifiedIncoming" /\ loc[q].source.kind = "ok") =>
                   loc[q].n0_effective = arg[q].n0
            /\ (arg[q].tangentMode = "EUnmodifiedOutgoing" /\ loc[q].source.kind = "ok") =>
                   loc[q].n0_effective = arg[q].nL
            /\ (arg[q].tangentMode = "EUnmodifiedOutgoing" /\ ~VIsFinite(arg[q].nL)) =>
                   ret[q] = Returned(0)
            /\ loc[q].source.kind = "ok" => VIsFinite(loc[q].n0_effective)
            /\ ret[q] # Returned(1) => OutputsUnwritten(q)
\* the call has failed in the tangent mode with the mean normal, because the
\* two normals are opposite; nothing was written
C16_FailedOnOppositeNormals ==
    \E q \in Queries :
        /\ ReturnedFrom(q, "getVirtualDipoleSource")
        /\ arg[q].tangentMode = "EFrisvadEtAlWithMeanNormal"
        /\ arg[q].R # ZeroVec
        /\ VAdd(arg[q].n0, arg[q].nL) = ZeroVec
        /\ ret[q] = Returned(0)
        /\ OutputsUnwritten(q)

\* the construction for the arguments a with another entry direction and
\* another setting of rejectInternalIncoming
SourceWith(a, u0, rej) == getVirtualDipoleSource(medium, a.n0, u0, a.nL, a.uL, a.R, a.length, rej, a.tangentMode, a.zvMode)
\* the entry direction of a points out through the effective normal
PointsOutward(a) == StepOneOf(a).kind = "ok" /\ FGt(Dot(StepOneOf(a).n, a.u0), 0)
\* C17: step 2 of getVirtualDipoleSource.  The call fails because of the
\* entry direction if and only if rejectInternalIncoming is true and
\* dot(effective normal, u0) > 0; with rejectInternalIncoming false, whether
\* the call succeeds and the R_virt it gives do not depend on u0.
C17_EntryRejection ==
    \A q \in Queries :
        ReturnedFrom(q, "getVirtualDipoleSource") =>
            /\ (arg[q].rejectInternalIncoming /\ PointsOutward(arg[q])) => ret[q] = Returned(0)
            /\ loc[q].source.kind # SourceWith(arg[q], arg[q].u0, FALSE).kind =>
                   arg[q].rejectInternalIncoming /\ PointsOutward(arg[q])
            /\ ~arg[q].rejectInternalIncoming =>
                   \A u \in SourceDirections \cup {NaNVec} :
                       /\ SourceWith(arg[q], u, FALSE).kind = loc[q].source.kind
                       /\ SourceWith(arg[q], u, FALSE).R_virt = loc[q].source.R_virt
\* a call with rejectInternalIncoming has failed for a direction that leaves
\* the medium; the same call would succeed without the rejection, and it
\* succeeds for a direction along the surface
C17_RejectedOutwardDirection ==
    \E q \in Queries :
        /\ ReturnedFrom(q, "getVirtualDipoleSource")
        /\ arg[q].rejectInternalIncoming
        /\ PointsOutward(arg[q])
        /\ ret[q] = Returned(0)
        /\ SourceWith(arg[q], arg[q].u0, FALSE).kind = "ok"
        /\ SourceWith(arg[q], ex, TRUE).kind = "ok"

\* the call of query q has reached step 3 with a mode that exists
ReachedHeight(q) ==
    /\ ReturnedFrom(q, "getVirtualDipoleSource")
    /\ StepOneOf(arg[q]).kind = "ok"
    /\ ~(arg[q].rejectInternalIncoming /\ PointsOutward(arg[q]))
    /\ arg[q].zvMode \in ZvModes
sigma_sp == FMul(medium.sigma_s, medium.mu)
sigma_tp == FAdd(FMul(medium.sigma_s, medium.mu), medium.sigma_a)
\* C18 as it is stated: each of the three height modes fails when
\* sigma_s mu + sigma_a is zero and also when sigma_s mu is zero
C18_EveryHeightModeNeedsScattering ==
    \A q \in Queries :
        (ReachedHeight(q) /\ (sigma_tp = 0 \/ sigma_sp = 0)) => ret[q] = Returned(0)
\* C18: step 3 of getVirtualDipoleSource.  Each of the three height modes
\* fails when sigma_s mu + sigma_a is zero.  Only the mode of Frisvad et al.
\* fails as well when sigma_s mu is zero; the better-dipole and the
\* classical-diffusion mode succeed whenever sigma_s mu + sigma_a is not zero.
C18_HeightModeFailures ==
    \A q \in Queries :
        ReachedHeight(q) =>
            /\ sigma_tp = 0 => ret[q] = Returned(0)
            /\ (arg[q].zvMode = "EFrisvadEtAlZv" /\ sigma_sp = 0) => ret[q] = Returned(0)
            /\ (arg[q].zvMode = "EFrisvadEtAlZv" /\ sigma_sp # 0 /\ sigma_tp # 0) => ret[q] = Returned(1)
            /\ (arg[q].zvMode # "EFrisvadEtAlZv" /\ sigma_tp # 0) => ret[q] = Returned(1)
\* the classical-diffusion mode has succeeded in a medium that absorbs and
\* does not scatter
C18_ClassicalHeightWithoutScattering ==
    \E q \in Queries :
        /\ ReachedHeight(q)
        /\ arg[q].zvMode = "EClassicDiffusion"
        /\ sigma_sp = 0
        /\ sigma_tp # 0
        /\ ret[q] = Returned(1)
        /\ VIsFinite(loc[q].R_virt)

\* C20: getTentativeIndexMatchedVirtualSourceDisp succeeds or fails, and
\* gives the R_virt and the effective normal, exactly as getVirtualDipoleSource
\* does with zvMode EClassicDiffusion and rejectInternalIncoming false, for
\* whatever entry direction; when the weight of the real source is not
\* requested, calcValues is not evaluated for the length that was passed.
C20_TentativeIsClassicalWithoutRejection ==
    \A q \in Queries :
        ReturnedFrom(q, "getTentativeIndexMatchedVirtualSourceDisp") =>
            /\ \A u \in SourceDirections \cup {NaNVec} :
                   /\ getVirtualDipoleSource(medium, arg[q].n0, u, arg[q].nL, arg[q].uL, arg[q].R, arg[q].s,
                          FALSE, arg[q].tangentMode, "EClassicDiffusion").kind = loc[q].source.kind
                   /\ getVirtualDipoleSource(medium, arg[q].n0, u, arg[q].nL, arg[q].uL, arg[q].R, arg[q].s,
                          FALSE, arg[q].tangentMode, "EClassicDiffusion").R_virt = loc[q].source.R_virt
                   /\ getVirtualDipoleSource(medium, arg[q].n0, u, arg[q].nL, arg[q].uL, arg[q].R, arg[q].s,
                          FALSE, arg[q].tangentMode, "EClassicDiffusion").n0_effective = loc[q].source.n0_effective
            /\ ~arg[q].weightRequested =>
                   loc[q].values = NoLoc.values /\ loc[q].realSourceWeight = NoLoc.realSourceWeight
\* the tentative construction has succeeded for an undefined length, without
\* the weight, where the construction with rejection fails for a direction
\* that leaves the medium
C20_TentativeWithUndefinedLength ==
    \E q \in Queries :
        /\ ReturnedFrom(q, "getTentativeIndexMatchedVirtualSourceDisp")
        /\ IsNaN(arg[q].s)
        /\ ~arg[q].weightRequested
        /\ ret[q] = Returned(1)
        /\ loc[q].values = NoLoc.values
        /\ getVirtualDipoleSource(medium, arg[q].n0, ez, arg[q].nL, arg[q].uL, arg[q].R, arg[q].s,
               TRUE, arg[q].tangentMode, "EClassicDiffusion").kind = "fail"

(***************************************************************************)
(* Properties of the selection of the length strategies and of the bracket *)
(***************************************************************************)
RECURSIVE hiAfter(_, _)
\* the upper bound of the bracket after k multiplications by 3
hiAfter(A, k) == IF k = 0 THEN FDiv(1000 * FS, A) ELSE FMul(hiAfter(A, k - 1), 3 * FS)
\* query q is in the root search of sampleLengthLongLimit, or has left it,
\* with an upper bound of the bracket
HasBracket(q) == ~IsNaN(loc[q].hi)
\* C15 as it is stated: the upper bound of the bracket starts at 1000/A, is
\* only multiplied by 3 and never exceeds 10000*1000/A, the bound that is
\* handed to the root solver included
C15_BracketNeverAboveCap ==
    \A q \in Queries :
        HasBracket(q) =>
            /\ loc[q].hi = hiAfter(loc[q].A, loc[q].expansions)
            /\ FLe(loc[q].hi, bracketCap(loc[q].A))
\* C15: the upper bound of the bracket of sampleLengthLongLimit starts at
\* 1000/A and is only multiplied by 3; it is multiplied only while it is
\* below 10000*1000/A, at most 9 times, so that at every point of the search,
\* the bound that is handed to the root solver included, it is at most
\* 10000*1000/A or, after a multiplication, below 3*10000*1000/A.
C15_BracketBelowThreeCaps ==
    \A q \in Queries :
        HasBracket(q) =>
            /\ loc[q].hi = hiAfter(loc[q].A, loc[q].expansions)
            /\ loc[q].expansions <= 9
            /\ loc[q].expansions > 0 => FLt(hiAfter(loc[q].A, loc[q].expansions - 1), bracketCap(loc[q].A))
            /\ \/ FLe(loc[q].hi, bracketCap(loc[q].A))
               \/ loc[q].expansions > 0 /\ FLt(loc[q].hi, FMul(3 * FS, bracketCap(loc[q].A)))
\* the root solver is handed an upper bound above 10000*1000/A
C15_SolverAboveCap ==
    \E q \in Queries :
        /\ pc[q] = "solve"
        /\ loc[q].expansions = 9
        /\ FGt(loc[q].hi, bracketCap(loc[q].A))
        /\ FGe(targetHi(loc[q]), 0)

\* uniform variates that stand for [0, 1): the midpoints of ten equal parts
UniformGrid ==
    {Frac(5, 100), Frac(15, 100), Frac(25, 100), Frac(35, 100), Frac(45, 100),
     Frac(55, 100), Frac(65, 100), Frac(75, 100), Frac(85, 100), Frac(95, 100)}
\* the part of [0, 1) that the set of variates S stands for
shareOf(S) == (Cardinality(S) * FS) \div Cardinality(UniformGrid)
\* the probability with which sampleLengthDipole selects a strategy
strategyShare(name) == shareOf({u \in UniformGrid : selectedStrategy(u) = name})
\* query q is in sampleLengthDipole and has selected a strategy from u
StrategyPicked(q) == op[q] = "sampleLengthDipole" /\ ~IsNaN(loc[q].uStrategy)
\* C13: the weights w1, w2 and w3 sum to 1, and for every uniform variate u
\* sampleLengthDipole selects exactly one of ShortLimit, LongLimit and
\* Absorption, by the cumulative weights, so with the probabilities w1, w2
\* and w3; with w3 = 0 Absorption is never selected directly; and when the
\* pdfs of the other strategies are evaluated, s is no longer the value that
\* the caller passed: the selected strategy has assigned it.
C13_StrategySelection ==
    /\ FSum(<<lengthSample_w1, lengthSample_w2, lengthSample_w3>>) = FS
    /\ strategyShare("short") = lengthSample_w1
    /\ strategyShare("long") = lengthSample_w2
    /\ strategyShare("absorption") = lengthSample_w3
    /\ \A q \in Queries :
           StrategyPicked(q) =>
               /\ loc[q].strategy \in {"short", "long", "absorption"}
               /\ loc[q].strategy = "short" <=> loc[q].uStrategy < lengthSample_w1
               /\ loc[q].strategy = "long" <=>
                      /\ loc[q].uStrategy >= lengthSample_w1
                      /\ loc[q].uStrategy < lengthSample_w1 + lengthSample_w2
               /\ loc[q].strategy = "absorption" <=>
                      /\ loc[q].uStrategy >= lengthSample_w1 + lengthSample_w2
                      /\ loc[q].uStrategy < lengthSample_w1 + lengthSample_w2 + lengthSample_w3
               /\ lengthSample_w3 = 0 => loc[q].strategy # "absorption"
               /\ (pc[q] = "done" /\ ~FEq(loc[q].pdf, 0)) =>
                      /\ sOut[q] # arg[q].s
                      /\ IsFinite(sOut[q])
\* sampleLengthDipole has selected LongLimit for a variate of at least w1,
\* LongLimit has assigned s, and the pdfs of the other strategies were
\* evaluated at that s
C13_LongLimitSelectedAndAssigned ==
    \E q \in Queries :
        /\ StrategyPicked(q)
        /\ pc[q] = "done"
        /\ loc[q].strategy = "long"
        /\ loc[q].uStrategy >= lengthSample_w1
        /\ ~FEq(loc[q].pdf, 0)
        /\ sOut[q] # arg[q].s
        /\ ret[q] = Returned(FDiv(FS, FAdd(FAdd(FMul(lengthSample_w1, DipoleP1(q)),
                                                FMul(lengthSample_w2, DipoleP2(q))),
                                           FMul(lengthSample_w3, 0))))

\* the probability with which implLengthShortLimitMargOverU0 samples the fit
\* with the factor fac on its variance
fitShare(fac) == shareOf({u \in UniformGrid : sampledFac(u) = fac})
\* the weight that the pdf of that fit carries in the blended pdf
fitWeight(fac) == IF fac = safetyFac THEN margBlend(FS, 0) ELSE margBlend(0, FS)
\* query q is in the ShortLimit sampler without a known entry direction and
\* has chosen the fit that it samples
FitPicked(q) ==
    /\ op[q] \in {"sampleLengthShortLimit", "sampleLengthDipole"}
    /\ loc[q].strategy = "short"
    /\ ~arg[q].hasU0
    /\ loc[q].fac \in {FS, safetyFac}
\* C12: in the ShortLimit sampler without a known entry direction the
\* original fit is sampled with probability 0.7 and the safety fit with
\* probability 0.3, and these probabilities are the weights 0.7 and 0.3 that
\* the pdfs of the two fits carry in the pdf that the sample call and the
\* pdf-only call return.
C12_FitSampledWithItsWeight ==
    \A q \in Queries :
        FitPicked(q) =>
            /\ fitWeight(FS) = Frac(7, 10)
            /\ fitWeight(safetyFac) = Frac(3, 10)
            /\ fitShare(loc[q].fac) = fitWeight(loc[q].fac)

(***************************************************************************)
(* Properties of the direction mixture                                     *)
(***************************************************************************)
\* the tentative virtual source of a direction call with the arguments a
DirSourceOf(a) == getTentativeIndexMatchedVirtualSourceDisp(medium, a.n0, a.nL, a.uL, a.R, a.s, a.tangentMode)
\* the arguments of an evaluation e of the monopole density
PointOf(e) == [u0 |-> e.u0, n0 |-> e.n0, R |-> e.R]
\* sampleDirectionDipole of query q has returned a direction with a pdf that
\* is not 0
DipoleSampled(q) ==
    /\ ReturnedFrom(q, "sampleDirectionDipole")
    /\ ~ret[q].err
    /\ ~FEq(ret[q].val, 0)
\* the value that pdfDirectionDipole returns for the direction that query q
\* sampled, from the densities of the monopole that the call evaluated
PdfOfSampled(q, eReal, eVirt) == pdfDirectionDipoleOf(medium, arg[q], DirSourceOf(arg[q]), loc[q].u0, eReal.pdf, eVirt.pdf)
reflected(u, n) ==
    Vec(FSub(u[1], FMul(FMul(2 * FS, Dot(n, u)), n[1])),
        FSub(u[2], FMul(FMul(2 * FS, Dot(n, u)), n[2])),
        FSub(u[3], FMul(FMul(2 * FS, Dot(n, u)), n[3])))
\* the virtual direction and the R_virt that getVirtualDipoleSource gives for
\* the entry direction u0 and the arguments a of a direction call
VirtualDirectionOf(a, u0) == getVirtualDipoleSource(medium, a.n0, u0, a.nL, a.uL, a.R, a.s, FALSE, a.tangentMode, "EClassicDiffusion").u0_virt
\* C19: the virtual direction of getVirtualDipoleSource is
\* u0 - 2 dot(n_eff, u0) n_eff, and for a unit effective normal the mirror is
\* an involution that keeps dot products: the u0 that sampleDirectionDipole
\* returns for a sampled virtual direction u0_virt is the mirror image of
\* u0_virt, dot(u0, n0) = dot(u0_virt, n0_virt), and the mirror image of that
\* u0, which is the virtual direction of the construction for u0, is u0_virt.
C19_MirrorInvolution ==
    \A q \in Queries :
        (DipoleSampled(q) /\ loc[q].branch = "virt" /\ LengthSquared(loc[q].n0_effective) = FS) =>
            \A e \in loc[q].evals :
                e.R = loc[q].R_virt =>
                    /\ loc[q].u0 = reflected(e.u0, loc[q].n0_effective)
                    /\ VirtualDirectionOf(arg[q], loc[q].u0) = reflected(loc[q].u0, loc[q].n0_effective)
                    /\ VirtualDirectionOf(arg[q], loc[q].u0) = e.u0
                    /\ e.n0 = reflected(arg[q].n0, loc[q].n0_effective)
                    /\ Dot(loc[q].u0, arg[q].n0) = Dot(e.u0, e.n0)
\* the virtual source gave an oblique direction, which was mirrored back in
\* an effective normal that is not the entry normal
C19_MirroredObliqueDirection ==
    \E q \in Queries :
        /\ DipoleSampled(q)
        /\ loc[q].branch = "virt"
        /\ loc[q].n0_effective = ex
        /\ loc[q].u0 = Vec(0 - 600, 0, 0 - 800)
        /\ \E e \in loc[q].evals : e.R = loc[q].R_virt /\ e.u0 = Vec(600, 0, 0 - 800)

(***************************************************************************)
(* Further properties                                                      *)
(***************************************************************************)
\* the optical parameters are those that the data model allows
ValidMedium == medium.sigma_s > 0 /\ medium.mu > 0 /\ medium.mu <= FS /\ medium.sigma_a >= 0
\* the tentative construction of query q has succeeded, with the weight of
\* the real source requested for a length that is finite and positive
WeightComputed(q) ==
    /\ ReturnedFrom(q, "getTentativeIndexMatchedVirtualSourceDisp")
    /\ ret[q] = Returned(1)
    /\ arg[q].weightRequested
    /\ IsFinite(arg[q].s) /\ arg[q].s > 0
    /\ ValidMedium
\* the ratio of the call of query q
RatioOf(q) == realSourceRatio(calcValues(medium, arg[q].s), arg[q].uL, arg[q].R, loc[q].R_virt)
\* the weights that the pdfs of the real source, of the virtual source and
\* of the hemisphere carry in the pdf of the direction mixture
realWeight(w) == dipoleDirectionPdf(w, FS, 0, 0)
virtWeight(w) == dipoleDirectionPdf(w, 0, FS, 0)
hemiWeight(w) == dipoleDirectionPdf(w, 0, 0, FS)
InUnitInterval(x) == FGe(x, 0) /\ FLe(x, FS)
TransmittanceOf(a) ==
    FMul(FSub(FS, refract(VNeg(a.u0), a.n0, medium.eta).F),
         FSub(FS, refract(a.uL, a.nL, medium.eta).F))
\* the difference of the real and the virtual plane source at the exit point
PlaneSourceDifference(a) ==
    FSub(evalPlaneSource(medium, InternalU0(a), InternalUL(a), a.nL, 0, a.length),
         evalPlaneSource(medium, VirtualSourceOf(a).u0_virt, InternalUL(a), a.nL,
                         Dot(VirtualSourceOf(a).R_virt, a.nL), a.length))
\* the call asks for the effective BRDF and gets past every rejection
ReachesEffectiveBRDF(a) ==
    /\ a.useEffectiveBRDF
    /\ ~RejectedOnEntry(a)
    /\ VirtualSourceOf(a).kind = "ok"
\* C22: with useEffectiveBRDF set, a call of evalDipole that gets past the
\* entry, exit, refraction and virtual-source rejections returns the Fresnel
\* transmittance times the difference of the real plane source (at Rz = 0)
\* and the virtual plane source (at Rz = dot(R_virt, nL)), and returns that
\* same value whatever the reciprocal flag, the dipole-component selector
\* (an unrecognized one included) and the debug setting are
C22_EffectiveBRDFPlaneSources ==
    \A q \in Queries :
        (EvalDone(q) /\ ReachesEffectiveBRDF(arg[q])) =>
            /\ ret[q] = Returned(FMul(TransmittanceOf(arg[q]),
                                      PlaneSourceDifference(arg[q])))
            /\ \A r \in BOOLEAN, d \in EvalDipoleModes, dbg \in BOOLEAN :
                   evalDipole(medium, dbg, arg[q].n0, arg[q].u0, arg[q].nL,
                              arg[q].uL, arg[q].R, arg[q].length,
                              arg[q].rejectInternalIncoming, r,
                              arg[q].tangentMode, arg[q].zvMode, TRUE, d) = ret[q]
\* an effective-BRDF call with the reciprocal flag set and an unrecognized
\* dipole selector has returned a nonzero value
C22_EffectiveBRDFWithUnknownSelector ==
    \E q \in Queries :
        /\ EvalDone(q)
        /\ ReachesEffectiveBRDF(arg[q])
        /\ arg[q].reciprocal
        /\ arg[q].dipoleMode \notin {EReal, EVirt, ERealAndVirt}
        /\ ~ret[q].err
        /\ ret[q].val # 0

(***************************************************************************)
(* The debug check of evalMonopole                                         *)
(***************************************************************************)
MonopoleDone(q) == pc[q] = "done" /\ op[q] = "evalMonopole"
\* evalMonopole on the arguments recorded in a, with the debug checks on or off
evalMonopoleOf(dbg, a) == evalMonopole(medium, dbg, a.u0, a.uL, a.R, a.length)
\* C23: the verification layer never changes a returned value: on the same
\* arguments evalMonopole returns the same value with the debug checks
\* enabled and with them disabled, a non-finite or negative G included
C23_DebugLeavesValue ==
    \A q \in Queries :
        (MonopoleDone(q) /\ ValidMedium) =>
            /\ ret[q] = Returned(evalMonopoleOf(TRUE, arg[q]))
            /\ ret[q] = Returned(evalMonopoleOf(FALSE, arg[q]))

(***************************************************************************)
(* The long-limit strategy with a pivot that is not positive               *)
(***************************************************************************)
\* the pivot beta of the long-limit routines for the arguments a
PivotOf(a) == longLimitBeta(HalfSigmaSMu(medium), a.R, a.uL)
\* sampleLengthLongLimit, called by itself, has returned for a pivot <= 0
LongLimitDelegated(q) ==
    /\ ReturnedFrom(q, "sampleLengthLongLimit")
    /\ FLe(PivotOf(arg[q]), 0)
\* C24: when the pivot beta is <= 0, sampleLengthLongLimit and
\* pdfLengthLongLimit both go to the absorption strategy: the sample call
\* draws as sampleLengthAbsorption does, the pdf that it returns is
\* pdfLengthLongLimit at the sampled s, which is pdfLengthAbsorption there;
\* without absorption both return 0 and s is left as it was
C24_LongLimitDelegatesToAbsorption ==
    \A q \in Queries :
        LongLimitDelegated(q) =>
            /\ ret[q] = Returned(pdfLengthLongLimit(medium, arg[q].R, arg[q].uL, sOut[q]))
            /\ ret[q] = Returned(pdfLengthAbsorption(medium, sOut[q]))
            /\ draws[q] = (IF medium.sigma_a = 0 THEN 0 ELSE 1)
            /\ medium.sigma_a = 0 =>
                   /\ ret[q] = Returned(0)
                   /\ sOut[q] = arg[q].s
                   /\ \A s \in PdfLengths :
                          pdfLengthLongLimit(medium, arg[q].R, arg[q].uL, s) = 0
\* a delegated sample in an absorbing medium, at a pivot of exactly 0, with
\* a finite s and a nonzero pdf
C24_DelegatedAtZeroPivot ==
    \E q \in Queries :
        /\ LongLimitDelegated(q)
        /\ PivotOf(arg[q]) = 0
        /\ medium.sigma_a > 0
        /\ IsFinite(sOut[q])
        /\ ret[q].val # 0

(***************************************************************************)
(* The CDF inversion of the long-limit sampler                             *)
(***************************************************************************)
\* sampleLengthLongLimit of query q has got past beta <= 0 and has drawn the
\* variate of its CDF inversion
ReachedInversion(q) ==
    /\ loc[q].strategy = "long"
    /\ ~IsNaN(loc[q].u)
\* C25: whenever sampleLengthLongLimit reaches its CDF inversion, in a
\* medium with sigma_s > 0, mu in (0,1] and sigma_a >= 0, the ratio
\* A = sigma_a / p is strictly positive and the first upper end 1000/A of
\* the bracket is finite
C25_InversionRatePositive ==
    \A q \in Queries :
        (ReachedInversion(q) /\ ValidMedium) =>
            /\ FGt(loc[q].A, 0)
            /\ IsFinite(FDiv(1000 * FS, loc[q].A))

(***************************************************************************)
(* The arguments of the truncated normal in the ShortLimit samplers        *)
(***************************************************************************)
\* r = |R| p of the ShortLimit call of query q
ShortR(q) == shortLimitR(medium, shortLimitDisplacement(arg[q], loc[q]))
\* the mean of the fit with a known entry direction, before it is checked
RawMean(q) ==
    IF FGt(ShortR(q), Frac(1, 10000))
    THEN knownU0MeanFull(ShortR(q),
             knownU0CosTheta0L(shortLimitDisplacement(arg[q], loc[q]), arg[q].u0, arg[q].uL),
             Dot(arg[q].u0, arg[q].uL))
    ELSE knownU0MeanShortR(ShortR(q),
             knownU0CosTheta0L(shortLimitDisplacement(arg[q], loc[q]), arg[q].u0, arg[q].uL),
             Dot(arg[q].u0, arg[q].uL))
\* the standard deviation of that fit, before it is checked
RawStddev(q) ==
    FMul(2 * FS, knownU0RealStddev(ShortR(q),
             knownU0CosTheta0L(shortLimitDisplacement(arg[q], loc[q]), arg[q].u0, arg[q].uL),
             Dot(arg[q].u0, arg[q].uL), loc[q].fit.mean))
Unusable(x) == ~IsFinite(x) \/ FLe(x, 0)
\* the discriminant D of the marginalized fit
MargD(q) ==
    FDiv(FSum(<<FProd(<<25 * FS, margCosTheta(shortLimitDisplacement(arg[q], loc[q]), arg[q].uL),
                        FAdd(margCosTheta(shortLimitDisplacement(arg[q], loc[q]), arg[q].uL), FS)>>),
                (0 - 25) * FS,
                FNeg(FProd(<<30 * FS, ShortR(q), ShortR(q)>>))>>),
         225 * FS)
\* t_mean^(2/5) of the marginalized fit
MargMean25(q) ==
    FDiv(FAdd(FDiv(FAdd(margCosTheta(shortLimitDisplacement(arg[q], loc[q]), arg[q].uL), FS), 3 * FS),
              FSqrt(MargD(q))), ShortR(q))
\* the marginalized fit fails: discriminant, mean or variance not positive
MargFitFails(q) ==
    \/ FLe(MargD(q), 0)
    \/ FLe(MargMean25(q), 0)
    \/ ~FGt(margTVar(ShortR(q),
                     margCosTheta(shortLimitDisplacement(arg[q], loc[q]), arg[q].uL),
                     MargMean25(q)), 0)
\* the marginalized sampler of query q has made its fit
MargFitted(q) == pc[q] \in {"margBackup", "margUniform", "truncnormMarg"}
LengthSamplers == {"sampleLengthAbsorption", "sampleLengthShortLimit", "sampleLengthLongLimit"}
\* a length sampler, called by itself, has returned
LengthSampled(q) == pc[q] = "done" /\ op[q] \in LengthSamplers
\* the length of query q is the -log(u)/sigma_a of sampleLengthAbsorption
FromAbsorption(q) ==
    \/ op[q] = "sampleLengthAbsorption"
    \/ (op[q] = "sampleLengthLongLimit" /\ FLe(PivotOf(arg[q]), 0))
\* C27: every length s that a length sampler returns together with a nonzero
\* pdf is finite and strictly positive, whatever values in [0,1), exactly 0
\* included, the random source returns. (The length -log(u)/sigma_a of
\* sampleLengthAbsorption is kept to the resolution 1/FS: a positive length
\* below the resolution reads 0 there, and is taken as positive.)
C27_SampledLengthPositive ==
    \A q \in Queries :
        (LengthSampled(q) /\ ret[q].val # 0) =>
            /\ IsFinite(sOut[q])
            /\ IF FromAbsorption(q) THEN FGe(sOut[q], 0) ELSE FGt(sOut[q], 0)
(***************************************************************************)
(* The pdf-only routines                                                   *)
(***************************************************************************)
PdfOnlyRoutines == PdfLengthRoutines \cup PdfDirectionRoutines
PdfOnlyReturned(q) == pc[q] = "done" /\ op[q] \in PdfOnlyRoutines
\* C28: a pdf-only routine that has returned made no use of the absent
\* sampler on the path that it took, so it did not fault and nothing was
\* drawn, and the caller's s and u0 are the ones that were passed
C28_PdfOnlyDrawsNothing ==
    \A q \in Queries :
        PdfOnlyReturned(q) =>
            /\ ret[q] # SamplerFault
            /\ draws[q] = 0
            /\ sOut[q] = arg[q].s
            /\ op[q] \in PdfDirectionRoutines => loc[q].u0 = arg[q].u0
\* a pdf that went through both sampleExpSinCos_dCos and sampleExpCos_dPhi
\* gave a density
C28_PdfThroughSharedRoutines ==
    \E q \in Queries :
        /\ PdfOnlyReturned(q)
        /\ op[q] = "pdfDirectionBoundaryAwareMonopole_bis"
        /\ ~ret[q].err /\ ret[q].val # 0
        /\ draws[q] = 0

\* C30: pdfDirectionDipole returns 0 for a direction u0 that is not incoming,
\* dot(u0, n0) >= 0
C30_NoDensityOutsideHemisphere ==
    \A q \in Queries :
        (pc[q] = "done" /\ op[q] = "pdfDirectionDipole" /\ ~ret[q].err
            /\ FGe(Dot(arg[q].u0, arg[q].n0), 0)) =>
            ret[q].val = 0

(***************************************************************************)
(* The hemisphere of the sampled direction                                 *)
(***************************************************************************)
DipoleDirectionSampled(q) ==
    /\ pc[q] = "done" /\ op[q] = "sampleDirectionDipole"
    /\ ~ret[q].err /\ ret[q].val # 0
\* C29: a direction u0 that sampleDirectionDipole returns with a nonzero
\* pdf is strictly incoming, dot(u0, n0) < 0
C29_SampledDirectionStrictlyIncoming ==
    \A q \in Queries :
        DipoleDirectionSampled(q) => FLt(Dot(loc[q].u0, arg[q].n0), 0)
\* the returned direction is at least not outgoing
SampledDirectionNotOutgoing ==
    \A q \in Queries :
        DipoleDirectionSampled(q) => FLe(Dot(loc[q].u0, arg[q].n0), 0)

====
